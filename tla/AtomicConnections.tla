------------------------- MODULE AtomicConnections -------------------------
(***************************************************************************)
(* What POST, PATCH and DELETE /connections promise their callers: each    *)
(* request is submitted, later takes effect in one indivisible step on the *)
(* catalogue as it is at that moment, or has no effect at all.  There are  *)
(* no adapters, no pools to close and no awaits here; Connections has      *)
(* them, and implements this module as long as writes to one connection do *)
(* not overlap.                                                            *)
(***************************************************************************)
EXTENDS ConnectionTypes, Naturals

VARIABLES
  catalogue,  \* what each id stands for
  seat,       \* position of each id in the list, by insertion number
  seats,      \* insertions so far
  issued,     \* ids ever handed out
  gone,       \* ids whose DELETE has been answered
  requests    \* what each writer has submitted and is waiting for

avars == <<catalogue, seat, seats, issued, gone, requests>>

Present(id) == catalogue[id] # Missing

Init ==
  /\ catalogue = [id \in Ids |-> Missing]
  /\ seat = [id \in Ids |-> 0]
  /\ seats = 0
  /\ issued = {}
  /\ gone = {}
  /\ requests = [w \in Writers |-> NoRequest]

Submit(w) ==
  /\ requests[w] = NoRequest
  /\ \E r \in Request : requests' = [requests EXCEPT ![w] = r]
  /\ UNCHANGED <<catalogue, seat, seats, issued, gone>>

\* A request that is refused leaves no trace.
Refuse(w) ==
  /\ requests[w] # NoRequest
  /\ requests' = [requests EXCEPT ![w] = NoRequest]
  /\ UNCHANGED <<catalogue, seat, seats, issued, gone>>

ApplyRegister(w) ==
  /\ requests[w] \in RegisterRequest
  /\ \E id \in Ids \ issued :
       /\ catalogue' = [catalogue EXCEPT ![id] =
            [label    |-> requests[w].label,
             endpoint |-> Fresh(requests[w].config)]]
       /\ seat' = [seat EXCEPT ![id] = seats + 1]
       /\ issued' = issued \cup {id}
  /\ seats' = seats + 1
  /\ requests' = [requests EXCEPT ![w] = NoRequest]
  /\ UNCHANGED gone

\* The edit applies to the entry as it is now, and the entry keeps its place.
ApplyEdit(w) ==
  /\ requests[w] \in EditRequest
  /\ LET id == requests[w].id IN
       /\ Present(id)
       /\ catalogue' = [catalogue EXCEPT ![id] =
            [label    |-> Relabelled(catalogue[id].label, requests[w].label),
             endpoint |-> Successor(catalogue[id].endpoint, requests[w].config)]]
  /\ requests' = [requests EXCEPT ![w] = NoRequest]
  /\ UNCHANGED <<seat, seats, issued, gone>>

ApplyDelete(w) ==
  /\ requests[w] \in DeleteRequest
  /\ catalogue' = [catalogue EXCEPT ![requests[w].id] = Missing]
  /\ gone' = gone \cup {requests[w].id}
  /\ requests' = [requests EXCEPT ![w] = NoRequest]
  /\ UNCHANGED <<seat, seats, issued>>

\* A rename does not wait for anything: it is submitted and applied at once.
Rename(id) ==
  /\ Present(id)
  /\ \E label \in Labels : catalogue' = [catalogue EXCEPT ![id].label = label]
  /\ UNCHANGED <<seat, seats, issued, gone, requests>>

\* Deleting an id that is not there is answered at once, and is not an error.
DeleteMissing(id) ==
  /\ ~Present(id)
  /\ gone' = gone \cup {id}
  /\ UNCHANGED <<catalogue, seat, seats, issued, requests>>

Next ==
  \/ \E w \in Writers : \/ Submit(w)
                        \/ Refuse(w)
                        \/ ApplyRegister(w)
                        \/ ApplyEdit(w)
                        \/ ApplyDelete(w)
  \/ \E id \in Ids : Rename(id) \/ DeleteMissing(id)

Spec == Init /\ [][Next]_avars
=============================================================================
