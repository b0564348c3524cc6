--------------------------- MODULE DeviceRegistry ---------------------------
(***************************************************************************)
(* What the bluetooth backend promises the device manager: a client is one *)
(* device however often it reconnects, a device lives in the first free    *)
(* place of the table until its client removes it, and the keys of a       *)
(* device are reported while it exists and in the order they were entered. *)
(***************************************************************************)
EXTENDS Integers, Sequences

CONSTANTS
  Addrs,   \* the bluetooth addresses of the clients
  Keys,    \* the keys, numbered in the order they are entered
  None     \* a free place

VARIABLES
  devices, \* m_aBtDevices of the manager: the client each device belongs to
  heard    \* the newest key reported of each client

vars == <<devices, heard>>

Free(i) == devices[i] = None

Init == devices = <<>> /\ heard = [a \in Addrs |-> 0]

\* onDeviceAdded()
Added(a) ==
  /\ \A i \in 1..Len(devices) : devices[i] # a
  /\ \/ /\ \A i \in 1..Len(devices) : ~Free(i)
        /\ devices' = Append(devices, a)
     \/ \E i \in 1..Len(devices) :
          /\ Free(i) /\ \A j \in 1..(i - 1) : ~Free(j)
          /\ devices' = [devices EXCEPT ![i] = a]
  /\ UNCHANGED heard

\* onDeviceRemoved()
Removed(i) ==
  /\ ~Free(i)
  /\ devices' = [devices EXCEPT ![i] = None]
  /\ UNCHANGED heard

\* onBlueKey()
Reported(i, k) ==
  /\ ~Free(i)
  /\ k > heard[devices[i]]
  /\ heard' = [heard EXCEPT ![devices[i]] = k]
  /\ UNCHANGED devices

\* The manager is deleted, and its devices with it.
Deleted == devices' = <<>> /\ UNCHANGED heard

Next ==
  \/ \E a \in Addrs : Added(a)
  \/ \E i \in 1..Len(devices) : Removed(i) \/ \E k \in Keys : Reported(i, k)
  \/ Deleted

Spec == Init /\ [][Next]_vars
=============================================================================
