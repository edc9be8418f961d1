--------------------------- MODULE EpisodeLifecycle ---------------------------
(***************************************************************************)
(* What the episodes table of the carry study promises, whatever the         *)
(* outages, the crashes between two writes and the restarts: a pair has one   *)
(* episode that is pending or open, an episode moves forward only and is      *)
(* settled as its phase allows, and the end of the study is final: nothing    *)
(* enters after it and only what is settled already may be settled anew.      *)
(***************************************************************************)
CONSTANTS Ids, Pairs

VARIABLES phase, pair, over

lifeVars == <<phase, pair, over>>

Settled == {"closed", "aborted", "liquidated"}
Settlements == {<<"pending_entry", "aborted">>, <<"open", "closed">>,
                <<"open", "liquidated">>, <<"pending_exit", "closed">>}

Init == /\ phase = [i \in Ids |-> "none"]
        /\ pair = [i \in Ids |-> 0]
        /\ over = FALSE

Move(i, s) == phase' = [phase EXCEPT ![i] = s] /\ UNCHANGED <<pair, over>>

Enter(i, p) == /\ ~ over /\ phase[i] = "none"
               /\ \A j \in Ids : pair[j] = p => phase[j] \notin {"pending_entry", "open"}
               /\ phase' = [phase EXCEPT ![i] = "pending_entry"]
               /\ pair' = [pair EXCEPT ![i] = p]
               /\ over' = over

Fill(i) == phase[i] = "pending_entry" /\ Move(i, "open")

Exit(i) == phase[i] = "open" /\ Move(i, "pending_exit")

Settle(i, s) == <<phase[i], s>> \in Settlements /\ Move(i, s)

\* A restart forgets the entries that were pending.
Forget == /\ phase' = [i \in Ids |-> IF phase[i] = "pending_entry" THEN "aborted" ELSE phase[i]]
          /\ UNCHANGED <<pair, over>>

End == over' = TRUE /\ UNCHANGED <<phase, pair>>

\* Once the study is over what still runs is closed, at once or one by one.
Stop(S) == /\ over /\ \A i \in S : phase[i] # "none"
           /\ phase' = [i \in Ids |-> IF i \in S THEN "closed" ELSE phase[i]]
           /\ UNCHANGED <<pair, over>>

Resettle(i, s) == over /\ phase[i] \in Settled /\ Move(i, s)

Next ==
    \/ \E i \in Ids : \/ \E p \in Pairs : Enter(i, p)
                      \/ Fill(i) \/ Exit(i)
                      \/ \E s \in Settled : Settle(i, s) \/ Resettle(i, s)
    \/ Forget \/ End
    \/ \E S \in SUBSET Ids : Stop(S)

Spec == Init /\ [][Next]_lifeVars
=============================================================================
