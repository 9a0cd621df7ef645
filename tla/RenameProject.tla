------------------------------ MODULE RenameProject ------------------------------
(***************************************************************************)
(* scripts/rename-project.mjs, which replaces the project's name in the    *)
(* texts and names of its files: file by file, with no way back, by an     *)
(* operator who may be interrupted and runs it again. A text is a sequence *)
(* of groups of letters: parts of a name or words, each lower, upper or       *)
(* capital, and separators. One directory stands for all (directories are  *)
(* never renamed); those the walk skips are left out.                      *)
(***************************************************************************)
EXTENDS Naturals, Sequences, SequencesExt

CONSTANTS Files,       (* the files of the project                           *)
          Cases,       (* old and new name, and the files as they are at first *)
          Options,     (* command lines that are used                        *)
          MaxRuns,     (* bound: runs                                        *)
          MaxCrashes   (* bound: runs ended in the middle                    *)

(* Texts *)
Atom(part, case) == [part |-> part, case |-> case]
Solid(parts, case) == [i \in DOMAIN parts |-> Atom(parts[i], case)]
Capitalised(parts) ==
  [i \in DOMAIN parts |-> Atom(parts[i], IF i = 1 THEN "capital" ELSE "lower")]
Joined(parts, joiner, case) ==
  FlattenSeq([i \in DOMAIN parts |->
    IF i = 1 THEN <<Atom(parts[i], case)>> ELSE <<Atom(joiner, "lower"), Atom(parts[i], case)>>])

PartsOf(text) == [i \in DOMAIN text |-> text[i].part]
AllIn(text, case) == \A i \in DOMAIN text : text[i].case = case

MatchCase_NoTitle(match, toParts) ==                                  \* mutant
  CASE AllIn(match, "lower") -> Solid(toParts, "lower")
    [] AllIn(match, "upper") -> Solid(toParts, "upper")
    [] OTHER                 -> Solid(toParts, "capital")

(* matchCase: lower, UPPER, Title, and Pascal for everything else. *)
MatchCase(match, toParts) ==
  CASE AllIn(match, "lower") -> Solid(toParts, "lower")
    [] AllIn(match, "upper") -> Solid(toParts, "upper")
    [] match = Capitalised(PartsOf(match)) -> Capitalised(toParts)
    [] OTHER -> Solid(toParts, "capital")

(* Every match of n groups, from left to right and none overlapping another. *)
ReplaceEach(text, n, Matches(_), Result(_)) ==
  LET from[i \in 1..Len(text) + n] ==
        IF i > Len(text) THEN <<>>
        ELSE LET window == SubSeq(text, i, i + n - 1) IN
             IF i + n - 1 <= Len(text) /\ Matches(window) THEN Result(window) \o from[i + n]
             ELSE <<text[i]>> \o from[i + 1]
  IN from[1]

(* The forms with separators, in the order they are replaced in; for a name of one
   part they are the solid form, and are left to it. *)
SeparatorForms == << <<"-", "lower">>, <<"_", "lower">>, <<" ", "capital">>,
                     <<"-", "upper">>, <<"_", "upper">> >>

SeparatorPairs(names) ==
  IF Len(names.from) = 1 THEN <<>>
  ELSE [i \in DOMAIN SeparatorForms |->
          [source |-> Joined(names.from, SeparatorForms[i][1], SeparatorForms[i][2]),
           target |-> Joined(names.to, SeparatorForms[i][1], SeparatorForms[i][2])]]

ApplyReplacements(names, text) ==
  LET separated == FoldLeft(LAMBDA t, pair :
                              ReplaceEach(t, Len(pair.source), LAMBDA w : w = pair.source,
                                          LAMBDA w : pair.target),
                            text, SeparatorPairs(names))
  IN  ReplaceEach(separated, Len(names.from), LAMBDA w : PartsOf(w) = names.from,
                  LAMBDA w : MatchCase(w, names.to))
-----------------------------------------------------------------------------
(* What a rename should be: a text is a sequence of occurrences of the old name, each
   in one of its forms, and of other words; every occurrence takes the new name in the
   same form, and nothing else changes. *)
InForm(parts, form) ==
  CASE form = "lower"   -> Solid(parts, "lower")
    [] form = "UPPER"   -> Solid(parts, "upper")
    [] form = "Title"   -> Capitalised(parts)
    [] form = "Pascal"  -> Solid(parts, "capital")
    [] form = "kebab"   -> Joined(parts, "-", "lower")
    [] form = "snake"   -> Joined(parts, "_", "lower")
    [] form = "KEBAB"   -> Joined(parts, "-", "upper")
    [] form = "SNAKE"   -> Joined(parts, "_", "upper")
    [] form = "Spaced"  -> Joined(parts, " ", "capital")
    [] form = "word"    -> <<Atom("word", "lower")>>

Spelt(parts, forms) == FlattenSeq([i \in DOMAIN forms |-> InForm(parts, forms[i])])

(* Names without a part in common: a text cannot hold the old name but for what the
   old text held. *)
Apart(names) == ToSet(names.from) \cap ToSet(names.to) = {}
-----------------------------------------------------------------------------
(* Two files of a directory have different names. *)
ASSUME RenameAssumption ==
  /\ MaxRuns \in Nat /\ MaxCrashes \in Nat
  /\ \A c \in Cases, f, g \in Files :
       Spelt(c.names.from, c.files[f].name) = Spelt(c.names.from, c.files[g].name) => f = g

VARIABLES
  case,      (* the names, and the files as they were                        *)
  disk,      (* per file, its name and its text                              *)
  run,       (* the script: how far it is, its options, files still to do    *)
  runs,      (* runs so far                                                  *)
  crashes,   (* runs ended in the middle                                     *)
  torn       (* history: files whose writing a crash cut off                 *)

vars == <<case, disk, run, runs, crashes, torn>>

NoOptions == [dry |-> TRUE, locks |-> FALSE, paths |-> FALSE]

Original(f, what) == Spelt(case.names.from, case.files[f][what])
Expected(f, what) == Spelt(case.names.to, case.files[f][what])

Init ==
  /\ case \in Cases
  /\ disk = [f \in Files |-> [name |-> Original(f, "name"), text |-> Original(f, "text")]]
  /\ run = [step |-> "idle", options |-> NoOptions, todo |-> {}, open |-> {}]
  /\ runs = 0 /\ crashes = 0 /\ torn = {}

(* Kinds of files: the script itself, lock files, other texts by their extension, and
   the rest. bun.lock and yarn.lock are of the rest, for their extension is none of a
   text: --include-lockfiles does not reach them, whatever its help says. *)
Kinds == {"self", "lock", "text", "other"}
IsProbablyTextFile(f) == case.files[f].kind \in Kinds \ {"other"}

(* The script itself is never touched, lock files only when asked to, and files that
   are no texts (by extension, or for a NUL) not at all. *)
Searched(f, options) ==
  /\ case.files[f].kind # "self" /\ IsProbablyTextFile(f)
  /\ case.files[f].kind = "lock" => options.locks
Renamable(f, options) == options.paths /\ case.files[f].kind # "self"

Replaced(text) == ApplyReplacements(case.names, text)

Start ==
  /\ run.step \in {"idle", "done", "ended"} /\ runs < MaxRuns /\ runs' = runs + 1
  /\ \E options \in Options :
       run' = [step |-> "texts", options |-> options, open |-> {},
               todo |-> {f \in Files : Searched(f, options)}]
  /\ UNCHANGED <<case, disk, crashes, torn>>

(* A file with a hit is written anew, which empties it first; others are passed by. *)
Update(f) ==
  /\ run.step = "texts" /\ run.open = {} /\ f \in run.todo
  /\ IF Replaced(disk[f].text) = disk[f].text \/ run.options.dry
     THEN run' = [run EXCEPT !.todo = @ \ {f}] /\ UNCHANGED disk
     ELSE /\ run' = [run EXCEPT !.open = {[file |-> f, text |-> Replaced(disk[f].text)]}]
          /\ disk' = [disk EXCEPT ![f].text = <<>>]
  /\ UNCHANGED <<case, runs, crashes, torn>>

Write ==
  /\ \E o \in run.open :
       /\ disk' = [disk EXCEPT ![o.file].text = o.text]
       /\ run' = [run EXCEPT !.open = {}, !.todo = @ \ {o.file}]
  /\ UNCHANGED <<case, runs, crashes, torn>>

(* All texts are done: the files are walked again, for their names. *)
TurnToPaths ==
  /\ run.step = "texts" /\ run.open = {} /\ run.todo = {}
  /\ run' = [run EXCEPT !.step = "paths", !.todo = {f \in Files : Renamable(f, run.options)}]
  /\ UNCHANGED <<case, disk, runs, crashes, torn>>

RenamePath_Onto(f) ==                                                 \* mutant
  /\ run.step = "paths" /\ f \in run.todo
  /\ run' = [run EXCEPT !.todo = @ \ {f}]
  /\ disk' = IF run.options.dry THEN disk ELSE [disk EXCEPT ![f].name = Replaced(disk[f].name)]
  /\ UNCHANGED <<case, runs, crashes, torn>>

(* A name that is taken is left alone. *)
RenamePath(f) ==
  /\ run.step = "paths" /\ f \in run.todo
  /\ run' = [run EXCEPT !.todo = @ \ {f}]
  /\ LET target == Replaced(disk[f].name) IN
     disk' = IF run.options.dry \/ \E g \in Files : disk[g].name = target THEN disk
             ELSE [disk EXCEPT ![f].name = target]
  /\ UNCHANGED <<case, runs, crashes, torn>>

Finish ==
  /\ run.step = "paths" /\ run.todo = {} /\ run' = [run EXCEPT !.step = "done"]
  /\ UNCHANGED <<case, disk, runs, crashes, torn>>

(* The process ends, or a read-only file or a full disk ends it. *)
Crash ==
  /\ run.step \in {"texts", "paths"} /\ crashes < MaxCrashes /\ crashes' = crashes + 1
  /\ torn' = torn \cup {o.file : o \in run.open}
  /\ run' = [run EXCEPT !.step = "ended", !.open = {}, !.todo = {}]
  /\ UNCHANGED <<case, disk, runs>>

ScriptStep == \/ Write \/ TurnToPaths \/ Finish
              \/ \E f \in Files : Update(f) \/ RenamePath(f)

Next == Start \/ ScriptStep \/ Crash

Spec == Init /\ [][Next]_vars
-----------------------------------------------------------------------------
(* Properties *)

Finished == run.step = "done" /\ ~run.options.dry

(* "Matches the old name case-insensitively and preserves each match's casing style.
   Also rewrites kebab/snake variants" (rename-project.mjs:11): after a run that
   finished, whatever runs ended before it, every text it searched is the original
   with each occurrence renamed in its own form, and so is every name that was free.
   Not so for names that share a part, where the new name may spell the old one
   again, and for a file whose writing was cut off. *)
FinishedIsRenamed ==
  Finished /\ Apart(case.names) =>
    \A f \in Files :
      /\ Searched(f, run.options) => disk[f].text = Expected(f, "text") \/ f \in torn
      /\ Renamable(f, run.options) =>
           \E g \in Files : disk[g].name = Expected(f, "name")

(* No file is lost: two never have one name, and each has its text as it was or with
   every occurrence renamed, never in part, unless it is being written or its writing
   was cut off. *)
NothingLost ==
  /\ \A f, g \in Files : disk[f].name = disk[g].name => f = g
  /\ Apart(case.names) =>
       \A f \in Files \ (torn \cup {o.file : o \in run.open}) :
         disk[f].text \in {Original(f, "text"), Expected(f, "text")}
===============================================================================
