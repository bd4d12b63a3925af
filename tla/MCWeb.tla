------------------------------- MODULE MCWeb -------------------------------
(***************************************************************************)
(* The run of what the web UI asks for and of what a device left alone     *)
(* does: the web UI's connections and rPod's Auto-Off (AutoOff), the       *)
(* requests on the music library (Library), the calls to MPD (MpdClient),  *)
(* which rPod makes too, the control socket (ControlSocket), the battery   *)
(* (Battery) and a cover's decoding (Covers).  In the models they share no *)
(* state, so a behaviour runs the one that `part' names while the others   *)
(* stand still: TLC has the sum of their states, not the product.          *)
(***************************************************************************)
EXTENDS Battery, Library, AutoOff, Covers, ControlSocket, MpdClient, TLC

VARIABLE part

askedVars  == <<clientVars, libVars, offVars, controlVars>>
aloneVars  == <<batteryVars, pngVars, shrinkVars>>

SmallCurve == <<<<8, 6>>, <<5, 4>>, <<2, 0>>>>

\* What stands still does so in one of its initial states.
Init ==
  /\ part \in {"mpd", "library", "server", "control", "battery", "png", "shrink"}
  /\ ClientInit /\ (part # "mpd" => ~liked.exists)
  /\ LibInit /\ (part # "library" => noflag)
  /\ OffInit /\ ControlInit
  /\ BatteryInit /\ PngInit /\ ShrinkInit

MpdMove     == /\ part = "mpd" /\ ClientNext
               /\ UNCHANGED <<part, libVars, offVars, controlVars, aloneVars>>
LibraryMove == /\ part = "library" /\ LibNext
               /\ UNCHANGED <<part, clientVars, offVars, controlVars, aloneVars>>
ServerMove  == /\ part = "server" /\ OffNext
               /\ UNCHANGED <<part, clientVars, libVars, controlVars, aloneVars>>
ControlMove == /\ part = "control" /\ ControlNext
               /\ UNCHANGED <<part, clientVars, libVars, offVars, aloneVars>>
BatteryMove == /\ part = "battery" /\ BatteryNext
               /\ UNCHANGED <<part, askedVars, pngVars, shrinkVars>>
PngMove     == /\ part = "png" /\ PngNext
               /\ UNCHANGED <<part, askedVars, batteryVars, shrinkVars>>
ShrinkMove  == /\ part = "shrink" /\ ShrinkNext
               /\ UNCHANGED <<part, askedVars, batteryVars, pngVars>>
Next == \/ MpdMove \/ LibraryMove \/ ServerMove \/ ControlMove
        \/ BatteryMove \/ PngMove \/ ShrinkMove
Spec == Init /\ [][Next]_<<part, askedVars, aloneVars>>

\* Neither the names nor the connections are told apart.
Alike == Permutations(FileNames) \union Permutations(Conns)
=============================================================================
