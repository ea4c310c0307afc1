------------------------------- MODULE MCSwitch -------------------------------
(* Instances of SwitchToConfiguration for TLC. *)
EXTENDS SwitchToConfiguration

CONSTANTS A, B, C, D,                \* configurations
          web, webSock, api, multi, data, tmp  \* units

Base == [main |-> 1, triggers |-> None, options |-> None,
         reloadIfChanged |-> FALSE, restartIfChanged |-> TRUE,
         stopIfChanged |-> TRUE, refuseManualStart |-> FALSE,
         refuseManualStop |-> FALSE, onlyManualStart |-> FALSE,
         stopOnRemoval |-> TRUE, stopOnReconfiguration |-> FALSE]

MCKind == [u \in Units |->
    CASE u = webSock -> "socket" [] u = multi -> "target"
      [] u \in {data, tmp} -> "mount" [] OTHER -> "service"]

\* D does not start web by its socket any more, C has no web: the socket that
\* it would have by default is no unit here.
MCSocketsOf   == [c \in Configs |-> [u \in Units |->
    IF u = web /\ c \in {A, B} THEN {webSock} \cap Units ELSE {}]]
\* api requires web: it goes down with it.
MCStoppedWith == [u \in Units |-> IF u = web THEN {api} \cap Units ELSE {}]
MCWants       == [u \in Units |-> IF u = multi THEN {webSock, data} \cap Units
                                  ELSE {}]
SameInit      == [c \in Configs |-> 1]
NewInit       == [c \in Configs |-> IF c = C THEN 2 ELSE 1]

\* B changes the socket-activated web, the reload triggers of api and the
\* device of the file system data.  C has no web any more, changes api, which
\* it stops and starts, and the options of the mount unit tmp.
MCUnitDef ==
    [c \in Configs |-> [u \in Units |->
        CASE u = data -> None
          [] u \in {web, webSock} /\ c = C -> None
          [] u = web /\ c \in {B, D} -> [Base EXCEPT !.main = 2]
          [] u = api /\ c = A -> [Base EXCEPT !.triggers = 1]
          [] u = api /\ c = B -> [Base EXCEPT !.triggers = 2]
          [] u = api /\ c = C -> [Base EXCEPT !.triggers = 2, !.main = 2]
          [] u = multi -> [Base EXCEPT !.stopOnReconfiguration = TRUE]
          [] u = tmp -> [Base EXCEPT !.options = IF c = C THEN 2 ELSE 1]
          [] OTHER -> Base]]

MCFstab == [c \in Configs |-> [u \in Units |->
    IF u = data THEN [device  |-> IF c = B THEN 2 ELSE 1,
                      options |-> IF c = C THEN 2 ELSE 1]
                ELSE None]]

NoRequests   == {[restart |-> {}, reload |-> {}]}
SomeRequests == NoRequests \cup {[restart |-> {web}, reload |-> {api}]}
WebRequests  == NoRequests \cup {[restart |-> {web}, reload |-> {}]}
===============================================================================
