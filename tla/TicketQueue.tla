---------------------------- MODULE TicketQueue ----------------------------
(***************************************************************************)
(* What a block's input ring promises whatever its load: whoever brings an *)
(* event takes the next ticket, closes it when the event is in place, and  *)
(* the server serves closed tickets, in ticket order, none twice, none     *)
(* left out, at most Batch at a time.  GpuRing implements it, even when    *)
(* the ring overruns: what an overrun costs is the events behind the       *)
(* tickets (GpuRing!IntactDelivery) and progress, not the order.           *)
(***************************************************************************)
EXTENDS Integers

CONSTANT Batch       \* how many tickets are served at a time

VARIABLES taken,     \* the next ticket
          open,      \* tickets taken and not yet closed
          served     \* every ticket below this one was served

ticketVars == <<taken, open, served>>

TicketInit == taken = 0 /\ open = {} /\ served = 0

Take == /\ open' = open \cup {taken}
        /\ taken' = taken + 1
        /\ UNCHANGED served

Close == /\ \E n \in open : open' = open \ {n}
         /\ UNCHANGED <<taken, served>>

Serve == \E k \in 1 .. Batch :
            /\ served + k <= taken
            /\ \A n \in served .. served + k - 1 : n \notin open
            /\ served' = served + k
            /\ UNCHANGED <<taken, open>>

TicketNext == Take \/ Close \/ Serve

TicketSpec == TicketInit /\ [][TicketNext]_ticketVars
=============================================================================
