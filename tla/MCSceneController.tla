-------------------------- MODULE MCSceneController --------------------------
(***************************************************************************)
(* Instances of SceneController for TLC.  The serial "emu1" occurs in      *)
(* "emu10", as the serials of two emulators can.                           *)
(***************************************************************************)
EXTENDS SceneController

MCSubstring ==
  {<<"emu1", "emu1">>, <<"emu1", "emu10">>, <<"emu10", "emu10">>, <<"bear", "bear">>}

Ask(sn, name, moves, chip) == [serial |-> sn, name |-> name, moves |-> moves, chip |-> chip]
Chip(capture, le, classic) == [capture |-> capture, le |-> le, classic |-> classic]

\* Radios off and on, one at a time, on the device whose serial is given.
RadioRequests ==
  {Ask(sn, NoText, FALSE, {c}) :
     sn \in {"emu1", "emu10"},
     c \in {Chip("UNKNOWN", "OFF", "UNKNOWN"), Chip("UNKNOWN", "ON", "UNKNOWN"),
            Chip("UNKNOWN", "UNKNOWN", "OFF")}}

\* NoText asks for all devices, and finds none.
CaptureRequests == [serial : {"emu10", NoText}, capture : States]

\* Moving, renaming, and asking by name only, which is refused.
InfoRequests ==
  {Ask("emu1", "bear", TRUE, {}), Ask("emu10", "bear", FALSE, {}),
   Ask(NoText, "bear", TRUE, {})}

OrderlyRequests == RadioRequests \cup InfoRequests

ChipOffRequests == {Ask("emu10", NoText, TRUE, {Chip("UNKNOWN", "OFF", "UNKNOWN")})}

Nothing == {}

\* Streams differ by nothing but their names.
StreamSymmetry == Permutations(Streams)
=============================================================================
