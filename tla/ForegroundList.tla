--------------------------- MODULE ForegroundList ---------------------------
(***************************************************************************)
(* AppStateObserver::foregrandProcList_ (app_state_observer.cpp), the list *)
(* of processes whose calls the service takes.  An entry is made from a    *)
(* report of the application manager or from its list of foreground        *)
(* applications at the start of the service; there an application whose    *)
(* process is still being started has the pid -1.  Every operation holds   *)
(* fgProcLock_ throughout.                                                 *)
(***************************************************************************)
EXTENDS Integers, SequencesExt

VARIABLE foregrandProcList    \* a sequence of entries [pid, uid]

NoPid == -1

Entry(pid, uid) == [pid |-> pid, uid |-> uid]

ListInit == foregrandProcList = <<>>

\* The entry that lets a caller in, by its pid or as one of unknown pid.
Vouches(e, pid, uid) == e.pid = pid \/ (e.pid = NoPid /\ e.uid = uid)

InForeground(pid, uid) ==
    \E i \in DOMAIN foregrandProcList : Vouches(foregrandProcList[i], pid, uid)

\* IsProcessForeground answers TRUE: the first entry that vouches for the
\* caller has its pid from now on.
AdoptEntry(pid, uid) ==
    /\ InForeground(pid, uid)
    /\ LET i == SelectInSeq(foregrandProcList, LAMBDA e : Vouches(e, pid, uid))
       IN  foregrandProcList' = [foregrandProcList EXCEPT ![i].pid = pid]

\* Faulty variant: one entry per application.
AddUnlessUidKnown(pid, uid) ==
    foregrandProcList' =
        IF \E i \in DOMAIN foregrandProcList : foregrandProcList[i].uid = uid
          THEN foregrandProcList
          ELSE Append(foregrandProcList, Entry(pid, uid))

\* Faulty variant: an entry is made for every report.
AddAlways(pid, uid) ==
    foregrandProcList' = Append(foregrandProcList, Entry(pid, uid))

\* An entry without pid is added once per application, one with a pid once.
AddProcessToForegroundSet(pid, uid) ==
    LET Same(e) == IF pid = NoPid THEN e.uid = uid ELSE e.pid = pid
    IN  foregrandProcList' =
            IF \E i \in DOMAIN foregrandProcList : Same(foregrandProcList[i])
              THEN foregrandProcList
              ELSE Append(foregrandProcList, Entry(pid, uid))

\* The first entry of the pid goes.
RemoveProcessFromForegroundSet(pid) ==
    foregrandProcList' =
        RemoveFirstMatch(foregrandProcList, LAMBDA e : e.pid = pid)
=============================================================================
