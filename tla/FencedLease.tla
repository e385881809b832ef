---------------------------- MODULE FencedLease ----------------------------
(***************************************************************************)
(* What a leased claim promises, whoever implements it: one holder at a    *)
(* time, known by a number no earlier holder had; a claim is taken over    *)
(* only once its lease has run out; what is reported under it is reported  *)
(* by the latest holder alone, however late an earlier one speaks; and the *)
(* value the holder works with changes only while nobody's lease runs.     *)
(***************************************************************************)
EXTENDS Naturals

CONSTANT LeaseValues    \* what the guarded value may be

VARIABLES
    holder,     \* the number of the claim, Free when there is none
    expired,    \* its lease has run out
    issued,     \* numbers handed out so far
    reported,   \* whose report is on show, Free before there is one
    guarded     \* the value a holder relies on

leaseVars == <<holder, expired, issued, reported, guarded>>

Free == 0
Unleased == holder = Free \/ expired

LeaseInit ==
    /\ holder = Free /\ expired = FALSE
    /\ issued = 0 /\ reported = Free
    /\ guarded \in LeaseValues

Take ==
    /\ Unleased
    /\ issued' = issued + 1 /\ holder' = issued + 1
    /\ expired' = FALSE /\ reported' = Free
    /\ UNCHANGED guarded

Expire ==
    /\ ~Unleased
    /\ expired' = TRUE
    /\ UNCHANGED <<holder, issued, reported, guarded>>

ReportAsHolder ==
    /\ holder # Free
    /\ reported' = holder
    /\ UNCHANGED <<holder, expired, issued, guarded>>

GiveUp ==
    /\ holder # Free
    /\ holder' = Free /\ expired' = FALSE
    /\ UNCHANGED <<issued, reported, guarded>>

ChangeGuarded ==
    /\ Unleased
    /\ guarded' \in LeaseValues
    /\ UNCHANGED <<holder, expired, issued, reported>>

LeaseNext == Take \/ Expire \/ ReportAsHolder \/ GiveUp \/ ChangeGuarded

LeaseSpec == LeaseInit /\ [][LeaseNext]_leaseVars
=============================================================================
