------------------------- MODULE MCMeasurementCodec -------------------------
(* Model-checking instance of MeasurementCodec.  Versions 1.0 to 1.2     *)
(* are the SpdmVersion values of this build; slots 0 and 7 are the      *)
(* lowest and highest slot a request can name (scenario 4 uses 7);       *)
(* number_of_measurement 0, 1 and 2 straddle the Param1 special case;    *)
(* operation 0x00, 0x01 and 0xFF are QueryTotalNumber, an index (read as  *)
(* Unknown(1)) and RequestAll.  The damaged bytes are 0x30, both         *)
(* content-changed bits, and 0x04, an undeclared attribute bit.          *)
EXTENDS MeasurementCodec

MCVersions == {16, 17, 18}
MCSlotIds == {0, 7}
MCNumbers == {0, 1, 2}
MCOperations == {0, 1, 255}
MCDamagedBytes == {48, 4}
=============================================================================
