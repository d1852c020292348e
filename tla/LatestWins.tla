----------------------------- MODULE LatestWins -----------------------------
(***************************************************************************)
(* What the runner promises about the ConfigMap it watches, with no word   *)
(* of channels, mutexes or informers: a mailbox that holds one content, in *)
(* which a newer content replaces an older one the consumer never took.    *)
(* Contents may be skipped; the last one may not.                          *)
(***************************************************************************)
CONSTANTS Contents,   \* what can be published
          Initial     \* what the mailbox holds before anything is published

VARIABLES latest,     \* the last content published
          fresh,      \* latest has not been taken yet
          taken,      \* the last content the consumer took
          closed      \* the consumer has been told to stop

vars == <<latest, fresh, taken, closed>>

TypeOK == /\ latest \in Contents
          /\ taken \in Contents
          /\ fresh \in BOOLEAN
          /\ closed \in BOOLEAN

Init == /\ latest = Initial
        /\ taken = Initial
        /\ fresh = FALSE
        /\ closed = FALSE

Publish(c) == /\ latest' = c
              /\ fresh' = TRUE
              /\ UNCHANGED <<taken, closed>>

Take == /\ fresh
        /\ taken' = latest
        /\ fresh' = FALSE
        /\ UNCHANGED <<latest, closed>>

\* The consumer's process dies and a new one starts with an empty mailbox.
Reset == /\ ~closed
         /\ latest' = Initial
         /\ taken' = Initial
         /\ fresh' = FALSE
         /\ UNCHANGED closed

Close == closed' = TRUE /\ UNCHANGED <<latest, fresh, taken>>

Next == \/ \E c \in Contents : Publish(c)
        \/ Take
        \/ Reset
        \/ Close

Safety == Init /\ [][Next]_vars

\* While the mailbox is open a fresh content does not wait for ever.
Spec == Safety /\ WF_vars(~closed /\ Take)
=============================================================================
