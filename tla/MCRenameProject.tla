------------------------------ MODULE MCRenameProject ------------------------------
(* A small instance of RenameProject: names of one and two parts, with and without a
   part in common; a text of two occurrences, two files named for the project, whose new
   names may be one, and a lock file or the script itself. *)
EXTENDS RenameProject

CONSTANTS main, named, taken, lock

AllFiles == {main, named, taken, lock}

Names == [from : {<<"peniel", "vault">>}, to : {<<"moduos">>, <<"brand", "new">>, <<"vault", "peniel">>}]
         \cup {[from |-> <<"vault">>, to |-> <<"brand", "new">>], [from |-> <<"vault">>, to |-> <<"peniel", "vault">>]}

FormsOf(parts) == {"lower", "UPPER", "Title", "word"} \cup
  IF Len(parts) = 1 THEN {} ELSE {"Pascal", "kebab", "snake", "KEBAB", "SNAKE", "Spaced"}

File(kind, name, text) == [kind |-> kind, name |-> name, text |-> text]

AllCases ==
  UNION {{[names |-> n,
           files |-> (main :> File("text", <<"word">>, <<a, b>>)
                   @@ named :> File("text", <<IF Len(n.from) = 1 THEN "lower" ELSE "kebab", "word">>, <<a>>)
                   @@ taken :> File("other", <<IF Len(n.from) = 1 THEN "UPPER" ELSE "lower", "word">>, <<a>>)
                   @@ lock :> File(IF b = "word" THEN "self" ELSE "lock", <<"word", "word">>, <<a>>))] :
          a \in FormsOf(n.from), b \in FormsOf(n.from)} : n \in Names}

(* --dry-run, --include-lockfiles, and --no-rename-paths. *)
AllOptions == {[dry |-> TRUE, locks |-> FALSE, paths |-> TRUE],
               [dry |-> FALSE, locks |-> TRUE, paths |-> TRUE],
               [dry |-> FALSE, locks |-> FALSE, paths |-> FALSE]}
===============================================================================
