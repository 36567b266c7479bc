------------------------------- MODULE Listing -------------------------------
(***************************************************************************)
(* What the API server promises a client, without files, directories or    *)
(* handlers: each request is answered once and in one step, from the       *)
(* bundle as it was extracted, as long as nothing of it is deleted; while  *)
(* it is, a request may fail, but no answer holds what was not asked for.  *)
(***************************************************************************)
CONSTANT Clients

VARIABLES
  asked,     \* what the bundle holds for each client's request:
             \*   kind      "list", "get", or "bad" for one that is refused
             \*   whole     the bundle can be read for it
             \*   objects   the objects it should be answered
             \*   eligible  those it may be answered from what is left
  deleting,  \* the bundle is being deleted
  up,        \* the process runs
  answer     \* what each client is answered

vars == <<asked, deleting, up, answer>>

None == "none"

(* The answer to a client is the bundle's, complete and exact.             *)
Exact(a, resp) ==
  \/ a.kind = "bad"  /\ resp.code \in {"BadRequest", "ServerError"}
  \/ a.kind = "list" /\ resp.code = "OK" /\ resp.value.items = a.objects
  \/ /\ a.kind = "get" /\ resp.code = "OK"
     /\ \E o \in a.objects : resp.value.items = {o}
  \/ a.kind = "get"  /\ resp.code = "NotFound" /\ a.objects = {}

(* It holds no object of another request.                                  *)
Proper(a, resp) ==
  resp.code = "OK" =>
    /\ a.kind # "bad"
    /\ a.kind = "list" => resp.value.items \subseteq a.eligible
    /\ a.kind = "get"  => \E o \in a.eligible : resp.value.items = {o}

Init ==
  /\ up = TRUE
  /\ deleting = FALSE
  /\ \A c \in Clients : answer[c].code = None

Answer(c) ==
  /\ up
  /\ answer[c].code = None /\ answer'[c].code # None
  /\ \A d \in Clients \ {c} : answer'[d] = answer[d]
  /\ Proper(asked[c], answer'[c])
  /\ ~deleting /\ asked[c].whole => Exact(asked[c], answer'[c])
  /\ UNCHANGED <<asked, deleting, up>>

Delete ==
  /\ up /\ ~deleting
  /\ deleting' = TRUE
  /\ UNCHANGED <<asked, up, answer>>

Exit ==
  /\ up
  /\ up' = FALSE
  /\ UNCHANGED <<asked, deleting, answer>>

Next == Delete \/ Exit \/ \E c \in Clients : Answer(c)

Spec == Init /\ [][Next]_vars
=============================================================================
