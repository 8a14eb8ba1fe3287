----------------------------- MODULE MCKeyboard -----------------------------
(***************************************************************************)
(* Instances of Keyboard for TLC.  The escaped strokes are an arrow and    *)
(* its release, the right ctrl key and Home.                               *)
(***************************************************************************)
EXTENDS Keyboard

MCStrokes == {<<"shift">>, <<"unshift">>, <<"letter">>,
              <<"E0", "arrow">>, <<"E0", "unarrow">>,
              <<"E0", "ctrl">>, <<"E0", "home">>}
=============================================================================
