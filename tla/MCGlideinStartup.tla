-------------------------- MODULE MCGlideinStartup --------------------------
(* Four configurations: a first one, one with another constant in main and *)
(* in the entry, one with another entry script, and one in which the main  *)
(* script and the unsigned file of the entry differ.                       *)
EXTENDS GlideinStartup

FirstConf == [a \in Areas |-> [k \in ListedFiles |-> 1]]
MCConfs ==
    { FirstConf,
      [a \in Areas |-> [FirstConf[a] EXCEPT !.consts = 2]],
      [FirstConf EXCEPT !["entry"].script = 2],
      [FirstConf EXCEPT !["main"].script = 2, !["entry"].live = 2] }
=============================================================================
