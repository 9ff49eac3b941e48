---------------------------- MODULE MCUsbBroker -----------------------------
(* Instances of UsbBroker *)
EXTENDS UsbBroker

CONSTANTS d1, d2

TwoDevices == (d1 :> "stick") @@ (d2 :> "disk")

(* A stick with two volumes, and a disk with none that can be mounted *)
TwoVolumes == (<<d1, 1>> :> "music") @@ (<<d1, 2>> :> "more")

(* Volumes of two devices with the same label *)
SameLabels == (<<d1, 1>> :> "music") @@ (<<d2, 1>> :> "music")

File(n) == [name |-> n, dir |-> FALSE]
Dir(n)  == [name |-> n, dir |-> TRUE]

OneLayout == <<(<<1>> :> {File(1), Dir(2)}) @@ (<<1, 2>> :> {File(3)}) @@ (<<2>> :> {})>>

(* Item 1 is a file that moves when directory 2 becomes a file. *)
TwoLayouts == <<(<<1>> :> {File(1), Dir(2)}) @@ (<<1, 2>> :> {File(3)}),
                (<<1>> :> {File(1), File(2)})>>

NoKeys == {}

StoredKeys == {Location("simple", "stick", "music", <<>>, <<2, 3>>, 0),
               Location("reference", "stick", "music", <<>>, <<1>>, 1),
               Location("reference", "disk", "music", <<2>>, <<3>>, 2),
               Location("trace", "disk", "music", <<2>>, <<3>>, 1),
               Location("trace", "disk", Empty, <<>>, <<>>, 0)}
=============================================================================
