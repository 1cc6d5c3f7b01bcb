--------------------------- MODULE MCEnumeration ---------------------------
(***************************************************************************)
(* Devices to enumerate.  The offsets are those of real configurations: a  *)
(* configuration descriptor of 9 bytes, interfaces of 9, HID of 9 and      *)
(* endpoints of 7.                                                         *)
(***************************************************************************)
EXTENDS Enumeration

Other(offset, length) == [at |-> offset, len |-> length, type |-> "other"]
Interface(offset, what) ==
  [at |-> offset, len |-> 9, type |-> "interface", protocol |-> what]
Endpoint(offset, number) ==
  [at |-> offset, len |-> 7, type |-> "endpoint", addr |-> 128 + number, attr |-> 3,
   size |-> 8, interval |-> 10]

Device(mps, names, total, conf) ==
  [mps |-> mps, strings |-> names, total |-> total, value |-> 1, conf |-> conf \cup {Other(0, 9)}]

Boot(what) == {Interface(9, what), Other(18, 9), Endpoint(27, 1)}

\* A low-speed keyboard with a product string.
Keyboard == Device(8, <<0, 18>>, 34, Boot("keyboard"))

\* A mouse with the HID descriptor after its endpoint, as in HID 1.0 drafts,
\* 32-byte packets and a maker's string of two packets exactly.
Mouse == Device(32, <<64, 0>>, 34,
                {Interface(9, "mouse"), Endpoint(18, 1), Other(25, 9)})

\* A keyboard whose second interface is a mouse, in a configuration longer
\* than the buffer.
Combined == Device(64, <<0, 0>>, 300,
                   Boot("keyboard") \cup {Interface(34, "mouse"), Other(43, 9), Endpoint(52, 2),
                                         Other(59, 200), Other(259, 41)})

\* A boot interface without an endpoint, in a whole number of packets.
Bare == Device(8, <<0, 0>>, 32, {Interface(9, "mouse"), Other(18, 14)})

\* A descriptor of length 0 in the way.
Broken == Device(8, <<0, 0>>, 43, {Interface(9, "keyboard"), Other(18, 0)})

AllDevices == {Keyboard, Mouse, Combined, Bare, Broken}
=============================================================================
