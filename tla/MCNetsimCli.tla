---------------------------- MODULE MCNetsimCli ----------------------------
(***************************************************************************)
(* Instances of NetsimCli for TLC.                                         *)
(***************************************************************************)
EXTENDS NetsimCli

\* Two devices, with the serials "1" and "2".
MCSerials == <<<<49>>, <<50>>>>

\* The coordinate 2.0, whose bytes are UTF-8.
Two == <<0, 0, 0, 64>>

MCCommands ==
    [kind : {"Version", "Devices", "Reset", "Gui"}]
    \cup [kind : {"Radio"}, bt_type : {"Ble", "Classic"}, status : {"Up", "Down"},
          serial : {<<49>>}]
    \cup {[kind |-> "Move", serial |-> <<49>>, x |-> Zero, y |-> Zero, z |-> NoZ],
          [kind |-> "Move", serial |-> <<49>>, x |-> Zero, y |-> Two, z |-> NoZ],
          [kind |-> "Move", serial |-> <<50>>, x |-> Two, y |-> Zero, z |-> Two]}
    \cup [kind : {"Capture"}, state : {"True", "False"}, serial : {<<50>>}]
=============================================================================
