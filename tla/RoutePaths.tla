------------------------------- MODULE RoutePaths -------------------------------
(***************************************************************************)
(* What the layers of the application make of a request's path: which      *)
(* paths are rewritten or retired (auth-paths.ts), which a session is      *)
(* asked for (session-route-guard.ts), and which are answered natively     *)
(* (redirect-paths.ts). Each layer compares paths for itself.              *)
(***************************************************************************)
EXTENDS Naturals, Sequences

CONSTANT Catalog    (* the entries of AUTH_API_CATALOG, with their paths     *)

Groups == {"auth", "user", "organisation", "teams", "admin"}

PathSet == [base : STRING, suffix : Seq(Seq(STRING))]

Slashed(path) == Len(path.suffix) > 1 /\ path.suffix[Len(path.suffix)] = <<>>

(* A name of a path leads to one entry: no two entries share a public or an internal
   path, and a public path is no other entry's internal or old one. No path of the
   catalogue ends with a slash. *)
ASSUME CatalogAssumption ==
  /\ \A e \in Catalog :
       /\ {e.internal, e.public, e.legacy} \subseteq PathSet
       /\ e.internal.base = "auth" /\ e.legacy.base = "auth" /\ e.public.base \in Groups
       /\ e.security \in {"public", "session", "admin"}
       /\ ~Slashed(e.internal)
  /\ \A e, f \in Catalog :
       /\ e.public = f.public => e = f
       /\ e.internal = f.internal => e = f
       /\ e.public = f.internal => e = f
       /\ f.group # "auth" => e.public # f.legacy

IsProxiedBetterAuthPath(path) == path.base \in Groups

(* buildAuthPathRewriteMap *)
Rewritten(path) == \E e \in Catalog : e.public = path
RewrittenPath(path) == (CHOOSE e \in Catalog : e.public = path).internal

(* buildLegacyAuthInternalPathSet *)
LegacyAuthInternalPaths ==
  {e.internal : e \in Catalog} \cup {e.legacy : e \in {f \in Catalog : f.group # "auth"}}

(* A path relative to Better Auth's base, as the hooks see it. *)
Relative(suffix) == [base |-> "relative", suffix |-> suffix]

(* Of what does not lie under Better Auth's base nothing is cut. *)
NormalizeAuthRelativePath(path) == IF path.base = "auth" THEN Relative(path.suffix) ELSE path

ToBetterAuthRelativePath(path) ==
  NormalizeAuthRelativePath(IF Rewritten(path) THEN RewrittenPath(path) ELSE path)

IsCatalogAuthRequiredPath_ByPublic(path) ==                           \* mutant
  \E e \in Catalog : Relative(e.public.suffix) = path /\ e.security \in {"session", "admin"}

(* The guard of sessions looks the catalogue up by the internal path. *)
IsCatalogAuthRequiredPath(path) ==
  \E e \in Catalog :
    /\ Relative(e.internal.suffix) = ToBetterAuthRelativePath(path)
    /\ e.security \in {"session", "admin"}

(* Infra paths by their prefix, callbacks by a segment with another after it. *)
ShouldSkipEnvelope(path) ==
  LET suffix == path.suffix
  IN \/ NormalizeAuthRelativePath(path) = Relative(suffix) /\ Len(suffix) > 1
        /\ suffix[1] \in {<<"dash">>, <<"events">>}
     \/ \E i \in 1..(Len(suffix) - 1) : suffix[i] = <<"callback">>

(* The endpoints whose success is a message only. *)
MessageOnlySuccessPaths ==
  {Relative(<< <<"email", "otp">>, rest >>) :
     rest \in {<<"send", "verification", "otp">>, <<"request", "password", "reset">>}}

(* The kinds of route that the wrapping of answers tells apart. *)
RouteOf(path) ==
  CASE ~IsProxiedBetterAuthPath(path) -> "nest"
    [] ShouldSkipEnvelope(path) -> "native"
    [] NormalizeAuthRelativePath(path) = Relative(<< <<"get", "session">> >>) -> "session"
    [] NormalizeAuthRelativePath(path) \in MessageOnlySuccessPaths -> "messageOnly"
    [] OTHER -> "other"
===============================================================================
