------------------------- MODULE MCUiControllerImpl -------------------------
(* Instances of UiControllerImpl for TLC.                                  *)
EXTENDS UiControllerImpl

CONSTANTS async, dynamic

OnePool   == {async}
PollOrder == <<async, dynamic>>
=============================================================================
