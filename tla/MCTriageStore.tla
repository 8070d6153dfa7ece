---------------------------- MODULE MCTriageStore ----------------------------
(***************************************************************************)
(* Instance of TriageStore for TLC: two detection runs, the second with an *)
(* alert less and the others under other numbers, and a request of every   *)
(* kind the console sends, bad ones included.                              *)
(***************************************************************************)
EXTENDS TriageStore

CONSTANTS t1, t2

ThreadSymmetry == Permutations({t1, t2})

MCAlertsOf(run) == IF run = 1 THEN (1 :> 7 @@ 2 :> 9) ELSE (1 :> 9)

Everything == [status |-> "", hide_closed |-> FALSE, offset |-> 0, limit |-> 2]

Post(kind, id, status, ids) ==
  [kind |-> kind, id |-> id, status |-> status, title |-> "a title", ids |-> ids]

Writes ==
  { Post("state", 2, "closed", <<>>), Post("state", 2, "reviewing", <<>>),
    Post("create", 0, "", <<1, 2>>),
    Post("update", 1, "closed", <<>>), Post("update", 1, "", <<2, 1>>) }

Refused ==
  { Post("state", 1, "bad", <<>>),
    [Post("create", 0, "", <<>>) EXCEPT !.title = ""] }

Reads ==
  { [kind |-> k, id |-> 2] : k \in {"summary", "alert", "participants", "cases", "case"} }
  \cup { [kind |-> "alerts", filter |-> f] :
           f \in {Everything, [Everything EXCEPT !.status = "open"],
                  [Everything EXCEPT !.hide_closed = TRUE, !.offset = 1]} }

AllRequests == Writes \cup Refused \cup Reads

CaseRequests == { Post("create", 0, "", <<1, 2>>) }
=============================================================================
