--------------------------- MODULE MaliciousApps ---------------------------
(***************************************************************************)
(* SecCompMaliciousApps (sec_comp_malicious_apps.cpp): a process whose     *)
(* components fail the vendor's enhanced check too often in a row is put   *)
(* on a list and refused from then on.  Each operator is one section under *)
(* maliciousMtx_.                                                          *)
(***************************************************************************)
EXTENDS Naturals

CONSTANTS
    Pid,
    RootPid,      \* processes of ROOT_UID, never refused
    MaxFail       \* MAX_CONTINUOUS_ENHANCE_FAIL_COUNT

VARIABLES
    maliciousFailCount,  \* maliciousFailCountMap_ (0: no entry)
    maliciousAppList     \* maliciousAppList_

maliciousVars == <<maliciousFailCount, maliciousAppList>>

MaliciousInit ==
    /\ maliciousFailCount = [p \in Pid |-> 0]
    /\ maliciousAppList = {}

MaliciousTypeOK ==
    /\ maliciousFailCount \in [Pid -> Nat]
    /\ maliciousAppList \in SUBSET Pid

IsInMaliciousAppList(p) == p \in maliciousAppList \ RootPid

AddAppToMaliciousAppList(p) ==
    /\ maliciousFailCount' = [maliciousFailCount EXCEPT ![p] = @ + 1]
    /\ maliciousAppList' = IF maliciousFailCount[p] + 1 > MaxFail
                             THEN maliciousAppList \cup {p}
                             ELSE maliciousAppList

\* A click whose component info passes the enhanced check and whose event
\* fails it: the count is reset and then raised.
ResetThenAdd(p) ==
    /\ maliciousFailCount' = [maliciousFailCount EXCEPT ![p] = 1]
    /\ maliciousAppList' = IF 1 > MaxFail THEN maliciousAppList \cup {p}
                                          ELSE maliciousAppList

\* A success ends the row of failures; the list is not left that way.
ResetAppMaliciousFailCount(p) ==
    /\ maliciousFailCount' = [maliciousFailCount EXCEPT ![p] = 0]
    /\ UNCHANGED maliciousAppList

\* Faulty variant: the row of failures outlives the process.
RemoveFromListOnly(p) ==
    /\ maliciousAppList' = maliciousAppList \ {p}
    /\ UNCHANGED maliciousFailCount

RemoveAppFromMaliciousAppList(p) ==
    /\ maliciousFailCount' = [maliciousFailCount EXCEPT ![p] = 0]
    /\ maliciousAppList' = maliciousAppList \ {p}
=============================================================================
