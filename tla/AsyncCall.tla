------------------------------ MODULE AsyncCall ------------------------------
(***************************************************************************)
(* What asyncaddrinfo.h promises to a single-threaded caller: a request is *)
(* answered at most once, the answer is collected at most once, and the    *)
(* service is torn down only after every request it accepted was answered, *)
(* so that nobody answers a caller that has gone.                          *)
(***************************************************************************)
CONSTANT Reqs       \* requests that may be outstanding

VARIABLES status,   \* status[r]: the life of request r
          open      \* does the service accept requests?

vars == <<status, open>>

TypeOK ==
  /\ status \in [Reqs -> {"idle", "pending", "answered", "abandoned"}]
  /\ open \in BOOLEAN

Init == status = [r \in Reqs |-> "idle"] /\ open = TRUE

\* asyncaddrinfo_resolve()
Ask(r) == /\ open /\ status[r] = "idle"
          /\ status' = [status EXCEPT ![r] = "pending"]
          /\ UNCHANGED open

\* The answer arrives, in any order.
Answer(r) == /\ status[r] = "pending"
             /\ status' = [status EXCEPT ![r] = "answered"]
             /\ UNCHANGED open

\* asyncaddrinfo_result()
Collect(r) == /\ open /\ status[r] = "answered"
              /\ status' = [status EXCEPT ![r] = "idle"]
              /\ UNCHANGED open

Close == open /\ open' = FALSE /\ UNCHANGED status

\* The caller drops a request; only after the service was closed, and never
\* one that is still to be answered.
Abandon(r) == /\ ~open /\ \A q \in Reqs : status[q] # "pending"
              /\ status[r] = "answered"
              /\ status' = [status EXCEPT ![r] = "abandoned"]
              /\ UNCHANGED open

Next == Close \/ \E r \in Reqs : Ask(r) \/ Answer(r) \/ Collect(r) \/ Abandon(r)

Spec == Init /\ [][Next]_vars
=============================================================================
