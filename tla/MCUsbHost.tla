----------------------------- MODULE MCUsbHost -----------------------------
(* The devices of the model: one of each kind the code tells apart. *)
EXTENDS UsbHost

LowKeyboard  == [id |-> 1, speed |-> "low",  class |-> HID_K]
FullMouse    == [id |-> 2, speed |-> "full", class |-> HID_M]
Shorted      == [id |-> 3, speed |-> "faulty", class |-> 0]
Nobody       == [id |-> 0, speed |-> "none", class |-> 0]

TwoDevices   == {LowKeyboard, FullMouse}
ThreeDevices == {LowKeyboard, FullMouse, Shorted}
Keys         == {0, 4}
=============================================================================
