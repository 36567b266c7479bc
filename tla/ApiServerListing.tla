-------------------------- MODULE ApiServerListing --------------------------
(***************************************************************************)
(* The handlers of ApiServer implement Listing: what they read, file by    *)
(* file and with their fallbacks, is what the bundle holds for a request.  *)
(***************************************************************************)
EXTENDS ApiServer

(* The objects of one file a list is answered, after both filters; a type  *)
(* the field filter does not know passes it whole.                         *)
Chosen(rq, p) ==
  LET type == Decode(rq.resource, bundle.data[p]).type
  IN  {o \in bundle.data[p].items :
         rq.route \in SelectingRoutes =>
           /\ o \in Match[rq.labels]
           /\ type \in FieldFilteredTypes => o \in Match[rq.fields]}

ListAsked(rq) ==
  [kind     |-> "list",
   whole    |-> Served(rq),
   objects  |-> UNION {Chosen(rq, p) : p \in HomeFiles(rq)},
   eligible |-> Eligible(rq)]

Named(rq, p) == FoundIn(rq, Decode(rq.resource, bundle.data[p]))

GetAsked(rq) ==
  [kind     |-> "get",
   whole    |-> \A p \in HomeFiles(rq) :
                  Decode(rq.resource, bundle.data[p]).type \notin Outcomes,
   objects  |-> UNION {Named(rq, p) : p \in HomeFiles(rq)},
   eligible |-> {o \in Objects :
                   /\ NameOf[o] = rq.name
                   /\ \E d \in {BaseDir(rq), CustomDir(rq)} :
                        /\ Stored(d, rq.ns)
                        /\ o \in bundle.data[[dir |-> d, ns |-> rq.ns]].items}]

Asked(rq) ==
  IF ~rq.valid \/ ~SelectorsParse(rq)
    THEN [kind |-> "bad", whole |-> TRUE, objects |-> {}, eligible |-> {}]
  ELSE IF rq.route \in Lists THEN ListAsked(rq) ELSE GetAsked(rq)

Abstract == INSTANCE Listing WITH
  asked    <- [c \in Clients |-> Asked(req[c])],
  deleting <- cleaning,
  answer   <- resp

(* Every step of the handlers is an answer of Listing, or invisible to the *)
(* client: although a handler probes, lists, checks and reads one file at  *)
(* a time, its answer is the one a single look at the bundle would give.   *)
AnswersAtOnce == Abstract!Spec
=============================================================================
