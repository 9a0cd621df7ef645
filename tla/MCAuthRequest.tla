----------------------------- MODULE MCAuthRequest -----------------------------
EXTENDS AuthCatalog, AuthRequest

(* A success, a redirect, errors of the map and one outside it. *)
HttpStatuses == {200, 302, 400, 401, 402, 403, 404, 500}
MappedErrors == {400, 401, 403, 404, 500}

Under(base, suffixes) == {[base |-> base, suffix |-> s] : s \in suffixes}

(* Endpoints the catalogue has no entry for, some native, and paths of no endpoint. *)
OtherSuffixes ==
  {<< <<"callback">>, <<"id">> >>, << <<"oauth2">>, <<"callback">>, <<"id">> >>,
   << <<"dash">>, <<"x">> >>, << <<"events">>, <<"x">> >>, << <<"reset", "password">> >>,
   << <<"organization">>, <<"get", "invitation", "url">> >>}
NoSuffixes == {<< <<"unknown">> >>, << <<"dash">> >>, << <<"callback">> >>}

OtherEndpoints == {Relative(s) : s \in OtherSuffixes}

(* Every path of the catalogue, with a slash after the internal ones, and the others. *)
AllPaths ==
  LET internals == {e.internal : e \in AuthApiCatalog}
  IN internals \cup {e.public : e \in AuthApiCatalog} \cup {e.legacy : e \in AuthApiCatalog}
     \cup {[p EXCEPT !.suffix = Append(p.suffix, <<>>)] : p \in internals}
     \cup Under("auth", OtherSuffixes \cup NoSuffixes)
     \cup Under("user", {<< <<"unknown">> >>, << <<"dash">>, <<"x">> >>, << <<"callback">>, <<"id">> >>})
     \cup Under("health", {<<>>})
===============================================================================
