----------------------------- MODULE MCLecWatch -----------------------------
(* Small instances of LecWatch, how requests reach the window, and of       *)
(* LecWatchSession, what the window makes of them.  They share no state:    *)
(* a behaviour is one of either, chosen at the start.                       *)
EXTENDS LecWatch, LecWatchSession

VARIABLE part

Plain(code, ok) == [code |-> code, length |-> 4, first |-> "none", ok |-> ok]
Packet(command, ok) ==
    [code |-> "CFDC2110", length |-> 12, ok |-> ok,
     first |-> [frame |-> "command", type |-> 3, command |-> command]]

SmallTraced == {Packet(<<1, 66>>, TRUE), Packet(<<0, 150>>, TRUE), Plain("23084", FALSE)}
SmallDescribed == <<[code |-> "CFDC2110", confidence |-> "confirmed"]>>

MonitorInit == part \in {"polling", "window"} /\ Init /\ SwInit
MonitorNext ==
    /\ UNCHANGED part
    /\ \/ part = "polling" /\ Next /\ UNCHANGED windowVars
       \/ part = "window" /\ SwNext /\ UNCHANGED vars

MonitorSpec == MonitorInit /\ [][MonitorNext]_<<part, vars, windowVars>> /\ Fairness
=============================================================================
