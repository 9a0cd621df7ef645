-------------------------- MODULE RenameProjectProofs --------------------------
(***************************************************************************)
(* Proofs about RenameProject, for every set of files, every case and      *)
(* every number of runs and crashes.                                       *)
(***************************************************************************)
EXTENDS RenameProject, TLAPS

(* What the replacement does to the texts and names of the files: it renames every
   occurrence, and leaves a text that was renamed already as it is. A statement about
   data only; for the cases of TLC's run it is what FinishedIsRenamed comes to after a
   first and after a second run. *)
ReplacementIsRight ==
  \A c \in Cases : Apart(c.names) =>
    \A f \in Files, what \in {"name", "text"} :
      LET old == Spelt(c.names.from, c.files[f][what])
          new == Spelt(c.names.to, c.files[f][what])
      IN  ApplyReplacements(c.names, old) = new /\ ApplyReplacements(c.names, new) = new

-----------------------------------------------------------------------------
(* The shape of the state: files with a name and a text, a run with its files. *)
Shape ==
  /\ case \in Cases
  /\ disk = [f \in Files |-> [name |-> disk[f].name, text |-> disk[f].text]]
  /\ run = [step |-> run.step, options |-> run.options, todo |-> run.todo, open |-> run.open]
  /\ run.step \in {"idle", "texts", "paths", "done", "ended"}
  /\ run.todo \subseteq Files

(* The name a file should have is there: it is that file's, or it was taken. *)
NameThere(f) == \E g \in Files : disk[g].name = Expected(f, "name")

(* A text is the old one or the new one, unless a crash cut its writing off. *)
WholeText(f, text) == f \in torn \/ text \in {Original(f, "text"), Expected(f, "text")}
NewText(f, text) == f \in torn \/ text = Expected(f, "text")

(* The file that is open is one still to do, and will get its new text. *)
OpenFiles == {o.file : o \in run.open}

OpenOK ==
  run.open = {} \/ /\ run.step = "texts"
                   /\ \E o \in run.open : /\ run.open = {o} /\ o.file \in run.todo
                                          /\ NewText(o.file, o.text)

(* Every name is the old one or the new one, and so is every text. *)
NamesOK == \A f \in Files : disk[f].name \in {Original(f, "name"), Expected(f, "name")}
TextsOK == \A f \in Files \ OpenFiles : WholeText(f, disk[f].text)

(* What a run has behind it is renamed. *)
TextsDone ==
  /\ run.step = "texts" =>
       \A f \in Files \ run.todo : Searched(f, run.options) => NewText(f, disk[f].text)
  /\ run.step \in {"paths", "done"} =>
       \A f \in Files : Searched(f, run.options) => NewText(f, disk[f].text)

NamesDone ==
  /\ run.step = "paths" =>
       \A f \in Files \ run.todo : Renamable(f, run.options) => NameThere(f)
  /\ run.step = "done" => \A f \in Files : Renamable(f, run.options) => NameThere(f)

(* The inductive invariant: whatever a run has before it is as it was or renamed by
   an earlier run, and what it has behind it is renamed. *)
ProgressInv ==
  /\ OpenOK /\ NamesOK /\ TextsOK
  /\ ~run.options.dry => TextsDone /\ NamesDone

NamesApart == \A f, g \in Files : disk[f].name = disk[g].name => f = g

LEMMA CaseKept ==
  ASSUME case' = case, NEW f, NEW what, NEW options
  PROVE  /\ Original(f, what)' = Original(f, what)
         /\ Expected(f, what)' = Expected(f, what)
         /\ Apart(case.names)' = Apart(case.names)
         /\ Searched(f, options)' = Searched(f, options)
         /\ Renamable(f, options)' = Renamable(f, options)
BY Zenon DEF Original, Expected, Apart, Searched, Renamable, IsProbablyTextFile

(* The two texts a file has, and the two names, are renamed by the script. *)
LEMMA Renames ==
  ASSUME ReplacementIsRight, case \in Cases, Apart(case.names),
         NEW f \in Files, NEW what \in {"name", "text"}
  PROVE  /\ Replaced(Original(f, what)) = Expected(f, what)
         /\ Replaced(Expected(f, what)) = Expected(f, what)
BY DEF ReplacementIsRight, Original, Expected, Replaced

(* What each step does to the shape of the state, and to the names. *)
LEMMA ShapeKept == Shape /\ [Next]_vars => Shape'
<1> SUFFICES ASSUME Shape, [Next]_vars PROVE Shape'
  OBVIOUS
<1>1. ASSUME NEW f, NEW x,
             disk' = [disk EXCEPT ![f].text = x] \/ disk' = [disk EXCEPT ![f].name = x]
      PROVE  disk' = [g \in Files |-> [name |-> disk'[g].name, text |-> disk'[g].text]]
  BY <1>1 DEF Shape
<1>2. CASE Start
  BY <1>2 DEF Start, Shape
<1>3. ASSUME NEW f \in Files, Update(f) PROVE Shape'
  BY <1>1, <1>3 DEF Update, Shape
<1>4. CASE Write
  BY <1>1, <1>4 DEF Write, Shape
<1>5. CASE TurnToPaths \/ Finish
  BY <1>5 DEF TurnToPaths, Finish, Shape
<1>6. ASSUME NEW f \in Files, RenamePath(f) PROVE Shape'
  BY <1>1, <1>6 DEF RenamePath, Shape
<1>7. CASE Crash
  BY <1>7 DEF Crash, Shape
<1>8. CASE UNCHANGED vars
  BY <1>8 DEF vars, Shape
<1> QED BY <1>2, <1>3, <1>4, <1>5, <1>6, <1>7, <1>8 DEF Next, ScriptStep

LEMMA RenameStarts == Init => Shape /\ NamesApart
<1> SUFFICES ASSUME Init PROVE Shape /\ NamesApart
  OBVIOUS
<1>1. case \in Cases /\ \A f \in Files : /\ disk[f].name = Original(f, "name")
                                         /\ disk[f].text = Original(f, "text")
  BY DEF Init
<1>2. NamesApart
  BY <1>1, RenameAssumption DEF NamesApart, Original
<1>3. Shape
  BY <1>1 DEF Init, Shape
<1> QED BY <1>2, <1>3

(* A file is renamed to a name that no file has, so no two get the same. *)
LEMMA NamesStayApart == Shape /\ NamesApart /\ [Next]_vars => NamesApart'
<1> SUFFICES ASSUME Shape, NamesApart, [Next]_vars PROVE NamesApart'
  OBVIOUS
<1>1. ASSUME \A f \in Files : disk'[f].name = disk[f].name PROVE NamesApart'
  BY <1>1 DEF NamesApart
<1>2. ASSUME NEW f \in Files, NEW x, disk' = [disk EXCEPT ![f].text = x] PROVE NamesApart'
  <2>1. \A g \in Files : disk'[g].name = disk[g].name
    BY <1>2 DEF Shape
  <2> QED BY <1>1, <2>1
<1>3. ASSUME NEW f \in Files, NEW x, \A g \in Files : disk[g].name # x,
             disk' = [disk EXCEPT ![f].name = x]
      PROVE  NamesApart'
  <2>1. disk'[f].name = x /\ \A g \in Files \ {f} : disk'[g].name = disk[g].name
    BY <1>3 DEF Shape
  <2> QED BY <1>3, <2>1 DEF NamesApart
<1>4. CASE disk' = disk
  BY <1>1, <1>4
<1>5. ASSUME NEW f \in Files, Update(f) PROVE NamesApart'
  BY <1>2, <1>4, <1>5 DEF Update
<1>6. CASE Write
  <2>1. PICK o \in run.open : disk' = [disk EXCEPT ![o.file].text = o.text]
    BY <1>6 DEF Write
  <2>2. \A g \in Files : disk'[g].name = disk[g].name
    BY <2>1 DEF Shape
  <2> QED BY <1>1, <2>2
<1>7. ASSUME NEW f \in Files, RenamePath(f) PROVE NamesApart'
  BY <1>3, <1>4, <1>7 DEF RenamePath
<1> QED BY <1>4, <1>5, <1>6, <1>7
  DEF Next, ScriptStep, Start, TurnToPaths, Finish, Crash, vars

(* No two files ever have one name: a file is never renamed onto another. *)
THEOREM NamesNeverMeet == Spec => []NamesApart
<1> QED BY RenameStarts, ShapeKept, NamesStayApart, PTL DEF Spec

-----------------------------------------------------------------------------
(* Nothing a run does to the options and the files makes a text older. *)
LEMMA TextsKeep ==
  ASSUME case' = case, torn \subseteq torn'
  PROVE  \A f, t : /\ WholeText(f, t) => f \in torn' \/ t \in {Original(f, "text")', Expected(f, "text")'}
                   /\ NewText(f, t) => f \in torn' \/ t = Expected(f, "text")'
BY CaseKept DEF WholeText, NewText

LEMMA StartProgress ==
  ASSUME Shape, Shape', ProgressInv, Start
  PROVE  ProgressInv'
<1>1. /\ run.open = {} /\ run'.open = {} /\ run'.step = "texts" /\ case' = case /\ disk' = disk
      /\ torn' = torn /\ run'.todo = {f \in Files : Searched(f, run'.options)}
  BY DEF Start, ProgressInv, OpenOK
<1>2. OpenOK' /\ NamesOK' /\ TextsOK'
  BY <1>1, TextsKeep, CaseKept DEF ProgressInv, OpenOK, NamesOK, TextsOK, OpenFiles, WholeText
<1>3. TextsDone' /\ NamesDone'
  BY <1>1, CaseKept DEF TextsDone, NamesDone
<1> QED BY <1>2, <1>3 DEF ProgressInv

(* A text without a hit is passed by: it is the new one already, for the old one would
   have changed, or was the same. A text with a hit is opened. *)
LEMMA UpdateProgress ==
  ASSUME ReplacementIsRight, Apart(case.names), Shape, Shape', ProgressInv,
         NEW f \in Files, Update(f)
  PROVE  ProgressInv'
<1>1. /\ case \in Cases /\ case' = case /\ torn' = torn /\ run.open = {} /\ run.step = "texts"
      /\ f \in run.todo
  BY DEF Update, Shape
<1>2. WholeText(f, disk[f].text)
  BY <1>1 DEF ProgressInv, TextsOK, OpenFiles
<1>3. NewText(f, Replaced(disk[f].text))
  BY <1>1, <1>2, Renames DEF WholeText, NewText
<1>4. CASE run' = [run EXCEPT !.todo = @ \ {f}] /\ disk' = disk
             /\ (Replaced(disk[f].text) = disk[f].text \/ run.options.dry)
  <2>1. /\ run'.todo = run.todo \ {f} /\ run'.open = {} /\ run'.step = "texts"
        /\ run'.options = run.options
    BY <1>1, <1>4 DEF Shape
  <2>2. OpenOK' /\ NamesOK' /\ TextsOK'
    BY <1>1, <1>4, <2>1, TextsKeep, CaseKept
    DEF ProgressInv, OpenOK, NamesOK, TextsOK, OpenFiles, WholeText
  <2>3. ASSUME ~run.options.dry, NEW g \in Files \ run'.todo, Searched(g, run.options)'
        PROVE  NewText(g, disk[g].text)'
    <3>1. NewText(g, disk[g].text)
      BY <1>1, <1>3, <1>4, <2>1, <2>3, CaseKept DEF ProgressInv, TextsDone
    <3> QED BY <1>1, <1>4, <3>1, TextsKeep DEF NewText
  <2>4. ~run.options.dry => TextsDone' /\ NamesDone'
    BY <2>1, <2>3 DEF TextsDone, NamesDone
  <2> QED BY <2>1, <2>2, <2>4 DEF ProgressInv
<1>5. CASE run' = [run EXCEPT !.open = {[file |-> f, text |-> Replaced(disk[f].text)]}]
             /\ disk' = [disk EXCEPT ![f].text = <<>>]
  <2> DEFINE o == [file |-> f, text |-> Replaced(disk[f].text)]
  <2>1. o.file = f /\ NewText(f, o.text)
    BY <1>3
  <2>2. run' = [run EXCEPT !.open = {o}]
    BY <1>5
  <2> HIDE DEF o
  <2>3. /\ run'.todo = run.todo /\ run'.open = {o} /\ run'.step = "texts"
        /\ run'.options = run.options
    BY <1>1, <2>2 DEF Shape
  <2>4. /\ \A g \in Files : disk'[g].name = disk[g].name
        /\ \A g \in Files \ {f} : disk'[g].text = disk[g].text
    BY <1>5 DEF Shape
  <2>5. OpenOK'
    BY <1>1, <2>1, <2>3, TextsKeep DEF OpenOK, NewText
  <2>6. OpenFiles = {} /\ OpenFiles' = {f}
    BY <1>1, <2>1, <2>3 DEF OpenFiles
  <2>7. NamesOK' /\ TextsOK'
    BY <1>1, <2>4, <2>6, TextsKeep, CaseKept DEF ProgressInv, NamesOK, TextsOK, WholeText
  <2>8. ASSUME ~run.options.dry, NEW g \in Files \ run'.todo, Searched(g, run.options)'
        PROVE  NewText(g, disk[g].text)'
    <3>1. NewText(g, disk[g].text) /\ disk'[g].text = disk[g].text
      BY <1>1, <2>3, <2>4, <2>8, CaseKept DEF ProgressInv, TextsDone
    <3> QED BY <1>1, <3>1, TextsKeep DEF NewText
  <2>9. ~run.options.dry => TextsDone' /\ NamesDone'
    BY <2>3, <2>8 DEF TextsDone, NamesDone
  <2> QED BY <2>3, <2>5, <2>7, <2>9 DEF ProgressInv
<1> QED BY <1>4, <1>5 DEF Update

LEMMA WriteProgress ==
  ASSUME Shape, Shape', ProgressInv, Write
  PROVE  ProgressInv'
<1>1. PICK o \in run.open : /\ disk' = [disk EXCEPT ![o.file].text = o.text]
                            /\ run' = [run EXCEPT !.open = {}, !.todo = @ \ {o.file}]
  BY DEF Write
<1>2. /\ run.step = "texts" /\ run.open = {o} /\ o.file \in run.todo /\ NewText(o.file, o.text)
      /\ case' = case /\ torn' = torn /\ o.file \in Files
  BY DEF Write, ProgressInv, OpenOK, Shape
<1>3. /\ run'.todo = run.todo \ {o.file} /\ run'.open = {} /\ run'.step = "texts"
      /\ run'.options = run.options
  BY <1>1, <1>2 DEF Shape
<1>4. /\ \A g \in Files : disk'[g].name = disk[g].name
      /\ \A g \in Files \ {o.file} : disk'[g].text = disk[g].text
      /\ disk'[o.file].text = o.text
  BY <1>1, <1>2 DEF Shape
<1>5. OpenFiles = {o.file} /\ OpenFiles' = {} /\ WholeText(o.file, o.text)
  BY <1>2, <1>3 DEF OpenFiles, WholeText, NewText
<1>6. OpenOK' /\ NamesOK'
  BY <1>2, <1>3, <1>4, CaseKept DEF ProgressInv, OpenOK, NamesOK
<1>7. TextsOK'
  BY <1>2, <1>4, <1>5, TextsKeep DEF ProgressInv, TextsOK, WholeText
<1>8. ASSUME ~run.options.dry, NEW g \in Files \ run'.todo, Searched(g, run.options)'
      PROVE  NewText(g, disk[g].text)'
  <2>1. CASE g = o.file
    BY <1>2, <1>4, <2>1, TextsKeep DEF NewText
  <2>2. CASE g # o.file
    <3>1. NewText(g, disk[g].text) /\ disk'[g].text = disk[g].text
      BY <1>2, <1>3, <1>4, <1>8, <2>2, CaseKept DEF ProgressInv, TextsDone
    <3> QED BY <1>2, <3>1, TextsKeep DEF NewText
  <2> QED BY <2>1, <2>2
<1>9. ~run.options.dry => TextsDone' /\ NamesDone'
  BY <1>3, <1>8 DEF TextsDone, NamesDone
<1> QED BY <1>3, <1>6, <1>7, <1>9 DEF ProgressInv

(* The next phase starts when nothing is left to do in this one. *)
LEMMA PhaseProgress ==
  ASSUME Shape, Shape', ProgressInv, TurnToPaths \/ Finish
  PROVE  ProgressInv'
<1>1. /\ run.open = {} /\ case' = case /\ torn' = torn /\ disk' = disk /\ run.todo = {}
  BY DEF TurnToPaths, Finish, ProgressInv, OpenOK
<1>2. /\ run'.open = {} /\ run'.options = run.options
      /\ \/ /\ run.step = "texts" /\ run'.step = "paths"
            /\ run'.todo = {f \in Files : Renamable(f, run.options)}
         \/ run.step = "paths" /\ run'.step = "done"
  BY <1>1 DEF TurnToPaths, Finish, Shape
<1>3. OpenOK' /\ NamesOK' /\ TextsOK'
  BY <1>1, <1>2, TextsKeep, CaseKept
  DEF ProgressInv, OpenOK, NamesOK, TextsOK, OpenFiles, WholeText
<1>4. \A f : NameThere(f) => NameThere(f)'
  BY <1>1, CaseKept DEF NameThere
<1>5. ~run.options.dry => TextsDone' /\ NamesDone'
  BY <1>1, <1>2, <1>4, TextsKeep, CaseKept DEF ProgressInv, TextsDone, NamesDone, NewText
<1> QED BY <1>2, <1>3, <1>5 DEF ProgressInv

(* A file is renamed unless its new name is there, and a file of a new name keeps it:
   replacing anew changes nothing, and the name is taken by the file itself. *)
LEMMA RenameProgress ==
  ASSUME ReplacementIsRight, Apart(case.names), Shape, Shape', ProgressInv,
         NEW f \in Files, RenamePath(f)
  PROVE  ProgressInv'
<1> DEFINE target == Replaced(disk[f].name)
<1>1. /\ case \in Cases /\ case' = case /\ torn' = torn /\ run.step = "paths" /\ run.open = {}
      /\ f \in run.todo
  BY DEF RenamePath, Shape, ProgressInv, OpenOK
<1>2. target = Expected(f, "name")
  BY <1>1, Renames DEF ProgressInv, NamesOK
<1> HIDE DEF target
<1>3. /\ run'.todo = run.todo \ {f} /\ run'.open = {} /\ run'.step = "paths"
      /\ run'.options = run.options
  BY <1>1 DEF RenamePath, Shape
<1>4. \/ disk' = disk /\ (run.options.dry \/ NameThere(f))
      \/ disk' = [disk EXCEPT ![f].name = target] /\ disk[f].name # target
  BY <1>2 DEF RenamePath, NameThere, target
<1>5. /\ \A g \in Files : disk'[g].text = disk[g].text
      /\ \A g \in Files \ {f} : disk'[g].name = disk[g].name
      /\ \/ disk'[f].name = disk[f].name /\ (run.options.dry \/ NameThere(f))
         \/ disk'[f].name = target /\ disk[f].name # target
  BY <1>4 DEF Shape
<1>6. OpenOK' /\ NamesOK' /\ TextsOK'
  <2>1. OpenOK' /\ OpenFiles' = {} /\ OpenFiles = {}
    BY <1>1, <1>3 DEF OpenOK, OpenFiles
  <2>2. NamesOK'
    BY <1>1, <1>2, <1>5, CaseKept DEF ProgressInv, NamesOK
  <2>3. TextsOK'
    BY <1>1, <1>5, <2>1, TextsKeep DEF ProgressInv, TextsOK, WholeText
  <2> QED BY <2>1, <2>2, <2>3
<1>7. ASSUME NEW g \in Files, NameThere(g) PROVE NameThere(g)'
  <2>1. PICK h \in Files : disk[h].name = Expected(g, "name")
    BY <1>7 DEF NameThere
  <2>2. h = f => target = disk[h].name
    BY <1>1, <2>1, Renames DEF target
  <2>3. disk'[h].name = disk[h].name
    BY <1>5, <2>2
  <2> QED BY <1>1, <2>1, <2>3, CaseKept DEF NameThere
<1>8. ~run.options.dry => NameThere(f)'
  <2>1. CASE disk'[f].name = target
    BY <1>1, <1>2, <2>1, CaseKept DEF NameThere
  <2> QED BY <1>5, <1>7, <2>1
<1>9. ~run.options.dry => TextsDone'
  <2>1. ASSUME ~run.options.dry, NEW g \in Files, Searched(g, run.options)'
        PROVE  NewText(g, disk[g].text)'
    <3>1. NewText(g, disk[g].text)
      BY <1>1, <1>3, <2>1, CaseKept DEF ProgressInv, TextsDone
    <3> QED BY <1>1, <1>5, <3>1, TextsKeep DEF NewText
  <2> QED BY <1>3, <2>1 DEF TextsDone
<1>10. ~run.options.dry => NamesDone'
  BY <1>1, <1>3, <1>7, <1>8, CaseKept DEF ProgressInv, NamesDone
<1> QED BY <1>3, <1>6, <1>9, <1>10 DEF ProgressInv

(* A crash tears the file that is open, and only that. *)
LEMMA CrashProgress ==
  ASSUME Shape, Shape', ProgressInv, Crash
  PROVE  ProgressInv'
<1>1. /\ case' = case /\ disk' = disk /\ torn' = torn \cup OpenFiles
      /\ run'.open = {} /\ run'.step = "ended"
  BY DEF Crash, Shape, OpenFiles
<1>2. OpenFiles' = {}
  BY <1>1 DEF OpenFiles
<1>3. OpenOK' /\ NamesOK' /\ TextsOK'
  BY <1>1, <1>2, TextsKeep, CaseKept DEF ProgressInv, OpenOK, NamesOK, TextsOK, WholeText
<1>4. TextsDone' /\ NamesDone'
  BY <1>1 DEF TextsDone, NamesDone
<1> QED BY <1>3, <1>4 DEF ProgressInv

LEMMA ProgressKept ==
  ASSUME ReplacementIsRight, Apart(case.names), Shape, Shape', ProgressInv, [Next]_vars
  PROVE  ProgressInv'
<1>1. CASE UNCHANGED vars
  <2>1. case' = case /\ disk' = disk /\ run' = run /\ torn' = torn
    BY <1>1 DEF vars
  <2>2. OpenOK' /\ NamesOK' /\ TextsOK'
    BY <2>1, TextsKeep, CaseKept
    DEF ProgressInv, OpenOK, NamesOK, TextsOK, OpenFiles, WholeText, NewText
  <2>3. \A f : NameThere(f) => NameThere(f)'
    BY <2>1, CaseKept DEF NameThere
  <2>4. ~run.options.dry => TextsDone' /\ NamesDone'
    BY <2>1, <2>3, TextsKeep, CaseKept DEF ProgressInv, TextsDone, NamesDone, NewText
  <2> QED BY <2>1, <2>2, <2>4 DEF ProgressInv
<1> QED BY <1>1, StartProgress, UpdateProgress, WriteProgress, PhaseProgress, RenameProgress,
           CrashProgress DEF Next, ScriptStep

LEMMA Progresses ==
  ASSUME ReplacementIsRight
  PROVE  Spec => [](Shape /\ NamesApart /\ (Apart(case.names) => ProgressInv))
<1> DEFINE Inv == Shape /\ NamesApart /\ (Apart(case.names) => ProgressInv)
<1>1. Init => Inv
  <2> SUFFICES ASSUME Init PROVE ProgressInv
    BY RenameStarts
  <2>1. /\ run.open = {} /\ run.step = "idle"
        /\ \A f \in Files : /\ disk[f].name = Original(f, "name")
                            /\ disk[f].text = Original(f, "text")
    BY DEF Init
  <2> QED BY <2>1 DEF ProgressInv, OpenOK, NamesOK, TextsOK, TextsDone, NamesDone, WholeText
<1>2. Inv /\ [Next]_vars => Inv'
  <2> SUFFICES ASSUME Shape, NamesApart, Apart(case.names) => ProgressInv, [Next]_vars,
                      Apart(case.names)'
               PROVE  ProgressInv' /\ Shape' /\ NamesApart'
    BY ShapeKept, NamesStayApart
  <2>1. case' = case
    BY DEF Next, vars, ScriptStep, Start, Update, Write, TurnToPaths, RenamePath, Finish, Crash
  <2> QED BY <2>1, CaseKept, ShapeKept, NamesStayApart, ProgressKept
<1> HIDE DEF Inv
<1>3. Spec => []Inv
  BY <1>1, <1>2, PTL DEF Spec
<1> QED BY <1>3 DEF Inv

(* After a run that finished, whatever runs were cut off before it, every text it
   searched is renamed and so is every name that was free. *)
THEOREM RenamedWhenFinished ==
  ASSUME ReplacementIsRight
  PROVE  Spec => []FinishedIsRenamed
<1>1. Shape /\ (Apart(case.names) => ProgressInv) => FinishedIsRenamed
  BY DEF ProgressInv, TextsDone, NamesDone, FinishedIsRenamed, Finished, NewText, NameThere
<1> QED BY <1>1, Progresses, PTL

(* No two files get one name, and no text is left in part unless its writing was cut
   off. *)
THEOREM NoFileLost ==
  ASSUME ReplacementIsRight
  PROVE  Spec => []NothingLost
<1>1. NamesApart /\ (Apart(case.names) => ProgressInv) => NothingLost
  BY DEF ProgressInv, NamesApart, TextsOK, NothingLost, OpenFiles, WholeText
<1> QED BY <1>1, Progresses, PTL
===============================================================================
