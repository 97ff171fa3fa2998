--------------------------- MODULE MultiVehicleMC ---------------------------
(* A small instance of MultiVehicle for TLC.                                 *)
EXTENDS MultiVehicle

CONSTANTS a, b, usb, radio, satellite

(* One vehicle with every kind of link and one that shares its radio.         *)
Both == {a, b}
AllLinks == {usb, radio, satellite}
UsbLinks == {usb}
Satellites == {satellite}
OneObjectEach == [v \in Vehicles |-> v]
OnlyTheFirst == {a}
TheirLinks == [v \in Vehicles |-> IF v = a THEN Links ELSE {radio}]

=============================================================================
