---------------------------- MODULE SUIDRegistry ----------------------------
(***************************************************************************)
(* LDCore/Serial/Lib/SUID.cpp: the identifiers that components keep on     *)
(* disk.  One serial type is modelled, so an identifier is its number.     *)
(***************************************************************************)
EXTENDS Integers, FiniteSets

CONSTANTS IdentityMask  \* SUID_IDENTITY_MASK: where the numbers wrap

ASSUME SUIDConstants == IdentityMask \in Nat \ {0}

VARIABLES
    registered,
    counter     \* where get_suid starts looking

suidVars == <<registered, counter>>

SUID == 0 .. IdentityMask - 1
NoSUID == -1
FreeSUIDs == SUID \ registered

SUIDInit == registered = {} /\ counter = 0

\* How far the loop of get_suid walks to s.
WalkTo(s) == (s - counter + IdentityMask) % IdentityMask

\* The k-th identifier that get_suid hands out from now on.
NthSUID(k) ==
    CHOOSE s \in FreeSUIDs : Cardinality({t \in FreeSUIDs : WalkTo(t) < WalkTo(s)}) = k - 1

\* n calls of get_suid; with none left the loop does not end.
GetSUIDs(n) ==
    /\ Cardinality(FreeSUIDs) >= n
    /\ registered' = registered \cup {NthSUID(k) : k \in 1 .. n}
    /\ counter' = IF n = 0 THEN counter ELSE (NthSUID(n) + 1) % IdentityMask

CanTry(s) == s # NoSUID /\ s \notin registered

\* try_get_suid on identifiers that CanTry, and free_suid on identifiers.
TrySUIDs(S) == registered' = registered \cup S /\ UNCHANGED counter
FreeSUIDsOf(S) == registered' = registered \ S /\ UNCHANGED counter
=============================================================================
