---------------------------- MODULE MCSendQueue ----------------------------
(* Instances of SendQueue for TLC.  The sets of messages and windows are    *)
(* model values; TwoWindows is the case the code is exposed to: Send        *)
(* Immediately in a compose window during a pass of the main window.        *)
EXTENDS SendQueue, TLC

CONSTANTS kept, moved, binhex, mainWindow, composeWindow

KeptAndBinHex == {kept, binhex}
OneMoved == {moved}
OneKept == {kept}
OneWindow == {mainWindow}
TwoWindows == {mainWindow, composeWindow}
=============================================================================
