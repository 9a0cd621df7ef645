------------------------------- MODULE AuthResponse -------------------------------
(***************************************************************************)
(* How an answer of the API gets its envelope: Better Auth's after hook    *)
(* (auth-options.ts), Nest's exception filter, and the middleware          *)
(* authResponseEnvelope, which patches write and end of the response and   *)
(* wraps what was not wrapped before, down to what is put on the wire.     *)
(*                                                                         *)
(* A body is its form, an envelope, other JSON, some other text or nothing,*)
(* the status an envelope carries (0 in others), and the forms it wraps.   *)
(***************************************************************************)
EXTENDS Naturals, Sequences

CONSTANTS Statuses,    (* HTTP statuses                                      *)
          Known,       (* the error statuses of API_ERROR_STATUS_MAP         *)
          Deliveries   (* how Better Auth's node handler writes a body       *)

ASSUME AuthResponseAssumption ==
  /\ Known \subseteq Statuses /\ Statuses \subseteq Nat \ {0}
  /\ {200, 400, 401, 403, 404} \subseteq Statuses
  /\ Deliveries \subseteq {"whole", "written"}

Forms == {"envelope", "json", "text", "empty"}
Body == [form : Forms, status : Statuses \cup {0}, inner : Forms]

Plain(form) == [form |-> form, status |-> 0, inner |-> "empty"]
Envelope(status, inner) == [form |-> "envelope", status |-> status, inner |-> inner]

(* A route by what the layers ask of its path: outside Better Auth's paths, a
   native one (callbacks, dash, events), get-session, one that may answer with a
   message only, or any other. *)
Routes == {"nest", "native", "session", "messageOnly", "other"}

(* What an endpoint of Better Auth returns to the after hook. *)
Returns == {"envelope", "apiError", "nothing", "message", "data"}

VARIABLES
  route,     (* the route of the request                                     *)
  phase,     (* idle, arrived, routed, read (all in AuthRequest), returned (by an
                endpoint or its before hook), answered (a response made), wrote
                (its body written, not ended), ended or thrown               *)
  returned,  (* what the endpoint returned, with its status                  *)
  body,      (* the response's body                                          *)
  status,    (* res.statusCode                                               *)
  delivery,  (* whole: in one end; written: in a write, then an empty end    *)
  sent       (* what is on the wire: its status, 0 before, and its bodies    *)

responseVars == <<route, phase, returned, body, status, delivery, sent>>

(* Types; and an envelope has a status. *)
ResponseTypeOK ==
  /\ route \in Routes
  /\ phase \in {"idle", "arrived", "routed", "read", "returned", "answered", "wrote", "ended",
                "thrown"}
  /\ returned \in [kind : Returns, status : Statuses]
  /\ body \in Body /\ status \in Statuses
  /\ delivery \in {"whole", "written"}
  /\ sent \in [status : Statuses \cup {0}, bodies : Seq(Body)]
  /\ body.form = "envelope" => body.status # 0

(* Nothing returned, nothing answered. *)
ResponseInit ==
  /\ route = "nest" /\ returned = [kind |-> "nothing", status |-> 200]
  /\ body = Plain("empty") /\ status = 200 /\ delivery = "whole"
  /\ sent = [status |-> 0, bodies |-> <<>>]

(* What Better Auth's endpoints (external) return: an error or a redirect is an API error. *)
EndpointReturns ==
  {r \in [kind : Returns \ {"envelope"}, status : Statuses] :
     IF r.kind = "apiError" THEN r.status >= 300 ELSE r.status = 200}

SkipsEnvelope == route = "native"
OfBetterAuth == route # "nest"

-----------------------------------------------------------------------------
(* An error status outside the map is answered as 400. *)
MapApiErrorStatus(s) == IF s \in Known THEN s ELSE 400

AfterHookBody_ErrorsAsData ==                                         \* mutant
  IF returned.kind = "envelope" THEN Envelope(returned.status, "empty")
  ELSE IF returned.kind = "nothing" THEN Envelope(IF route = "session" THEN 401 ELSE 200, "empty")
  ELSE Envelope(200, "json")

(* The after hook: an envelope made by the before hook stays; errors, an answer
   without its session and a message where data was due are wrapped as errors. *)
AfterHookBody ==
  CASE returned.kind = "envelope" -> Envelope(returned.status, "empty")
    [] returned.kind = "apiError" -> Envelope(MapApiErrorStatus(returned.status), "empty")
    [] returned.kind \in {"nothing", "message"} /\ route = "session" -> Envelope(401, "empty")
    [] returned.kind = "message" /\ route # "messageOnly" -> Envelope(400, "empty")
    [] OTHER -> Envelope(200, IF returned.kind = "nothing" THEN "empty" ELSE "json")

Answered(b, s, d) == phase' = "answered" /\ body' = b /\ status' = s /\ delivery' = d

(* Whether the hook's status reaches the response is up to Better Auth (external):
   the response has it, or the one of the endpoint. *)
AfterHook ==
  /\ phase = "returned" /\ OfBetterAuth /\ ~SkipsEnvelope
  /\ \E s \in {AfterHookBody.status, returned.status}, d \in Deliveries :
       Answered(AfterHookBody, s, d)
  /\ UNCHANGED <<route, returned, sent>>

(* On a native route the endpoint's own answer goes on. *)
NativeAnswer ==
  /\ phase = "returned" /\ SkipsEnvelope
  /\ \E form \in {"json", "text", "empty"}, d \in Deliveries :
       Answered(Plain(form), returned.status, d)
  /\ UNCHANGED <<route, returned, sent>>

(* Better Auth (external) answers by itself, before or around the hooks: a limit
   reached, an unknown path, a failure. *)
RouterAnswer ==
  /\ phase \in {"routed", "returned"} /\ OfBetterAuth
  /\ \E form \in {"json", "text", "empty"}, s \in {t \in Statuses : t >= 400}, d \in Deliveries :
       Answered(Plain(form), s, d)
  /\ UNCHANGED <<route, returned, sent>>

(* Nest answers: through the exception filter, on any route, with an envelope of the
   status it sets; outside Better Auth's routes also from a controller. *)
NestAnswer ==
  /\ phase \in {"routed", "returned"}
  /\ \/ \E s \in Statuses : (OfBetterAuth => s >= 400) /\ Answered(Envelope(s, "empty"), s, "whole")
     \/ ~OfBetterAuth /\ Answered(Plain("json"), 200, "whole")
  /\ UNCHANGED <<route, returned, sent>>

-----------------------------------------------------------------------------
(* The wire (Node, external): headers go with the first bytes, and no header can
   be set after; the status they carry is the one of that moment. *)
Put(b, s) == [status |-> IF sent.status = 0 THEN s ELSE sent.status,
              bodies |-> IF b.form = "empty" THEN sent.bodies ELSE Append(sent.bodies, b)]

(* res.write: collected, and passed on. *)
Write ==
  /\ phase = "answered" /\ delivery = "written"
  /\ phase' = "wrote" /\ sent' = Put(body, status)
  /\ UNCHANGED <<route, returned, body, status, delivery>>

(* What end is called with. *)
Chunk == IF delivery = "whole" THEN body ELSE Plain("empty")

Wraps_AnyRoute(b) == b.form = "json"                                  \* mutant
Wraps_Envelopes(b) ==                                                 \* mutant
  OfBetterAuth /\ ~SkipsEnvelope /\ b.form \in {"json", "envelope"}

(* JSON that is no envelope yet is wrapped. *)
Wraps(b) == OfBetterAuth /\ ~SkipsEnvelope /\ b.form = "json"

SyncedStatus_Kept == status                                           \* mutant

(* An envelope's status becomes the response's. *)
SyncedStatus == IF OfBetterAuth /\ ~SkipsEnvelope /\ body.form = "envelope" THEN body.status ELSE status

(* res.end as the middleware patched it; setting a header throws when headers have
   been sent, and nothing ends the response. *)
End ==
  /\ phase = IF delivery = "whole" THEN "answered" ELSE "wrote"
  /\ status' = SyncedStatus
  /\ IF Wraps(body) /\ sent.status # 0
     THEN phase' = "thrown" /\ sent' = sent
     ELSE /\ phase' = "ended"
          /\ sent' = Put(IF Wraps(body) THEN Envelope(status, body.form) ELSE Chunk, status')
  /\ UNCHANGED <<route, returned, body, delivery>>
-----------------------------------------------------------------------------
(* Properties *)

Enveloped == phase = "ended" /\ OfBetterAuth /\ ~SkipsEnvelope

(* README.md:546: every success or error path goes through the shared envelope. A
   JSON answer of an enveloped route is ended, and is one envelope on the wire,
   which wraps no other. *)
SharedEnvelope ==
  /\ phase # "thrown"
  /\ Enveloped /\ body.form \in {"envelope", "json"} =>
       /\ Len(sent.bodies) = 1
       /\ sent.bodies[1].form = "envelope" /\ sent.bodies[1].inner # "envelope"

(* So it is with every body handed over in one end, from whichever layer it came:
   no envelope is missing, and none is wrapped again. *)
WholeIsEnveloped == delivery = "whole" => SharedEnvelope

(* The envelope's status is the one on the wire, wherever either came from, unless
   the body was written before the end, with the status it had then. *)
StatusAgrees ==
  Enveloped /\ delivery = "whole" =>
    \A i \in DOMAIN sent.bodies :
      sent.bodies[i].form = "envelope" => sent.bodies[i].status = sent.status

(* A failure is told as one: what an endpoint or its before hook refused with an error
   status never ends as a success or a redirect, though the status is kept twice. *)
FailureIsTold ==
  phase = "ended" /\ returned.status >= 400 /\ OfBetterAuth => sent.status >= 400

(* Native routes are untouched, in status and body. *)
NativeUntouched ==
  phase = "ended" /\ ~(OfBetterAuth /\ ~SkipsEnvelope) =>
    /\ sent.status = status
    /\ sent.bodies = IF body.form = "empty" THEN <<>> ELSE <<body>>
===============================================================================
