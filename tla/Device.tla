------------------------------- MODULE Device --------------------------------
(***************************************************************************)
(* The devices of device.c and who keeps them open: callers, the console   *)
(* of kservice.c, the shell of finsh/shell.c, and portals (portal.c), each *)
(* of which opens the two pipes that it joins.                             *)
(*                                                                         *)
(* Rules of use: the calls come one at a time (nothing locks a device); no *)
(* device is STANDALONE; the console is set to devices that open (its      *)
(* result is not looked at); a portal is opened for both directions and    *)
(* not twice (its open handler runs at every open, its close handler only  *)
(* at the last close).                                                     *)
(***************************************************************************)
EXTENDS Integers, FiniteSets

CONSTANTS Devices,
          Portals,
          read_dev, write_dev,  \* the pipes of a portal
          Refusing,             \* devices whose init or open may fail
          Unclosing,            \* devices whose close handler may fail
          NoDevice,
          MaxOpens              \* bound on the opens of a device by callers

Pipes(p) == {read_dev[p], write_dev[p]}

ASSUME DeviceAssumption ==
    /\ Portals \subseteq Devices /\ IsFiniteSet(Portals)
    /\ Refusing \cup Unclosing \subseteq Devices \ Portals
    /\ NoDevice \notin Devices /\ MaxOpens \in Nat
    /\ \A p \in Portals : /\ read_dev[p] # write_dev[p]
                          /\ Pipes(p) \subseteq Devices \ (Portals \cup Refusing)

VARIABLES devices,
          _console_device,
          shell_device,
          holds         \* how many times callers have opened a device

device_vars == <<devices, _console_device, shell_device, holds>>

DeviceType ==
    /\ devices \in [Devices -> [activated : BOOLEAN, open : BOOLEAN,
                                rx_indicate : BOOLEAN, ref_count : Nat]]
    /\ {_console_device, shell_device} \subseteq Devices \cup {NoDevice}
    /\ holds \in [Devices -> 0 .. MaxOpens]

\* rt_device_register
DeviceInit ==
    /\ devices = [d \in Devices |-> [activated |-> FALSE, open |-> FALSE,
                                     rx_indicate |-> FALSE, ref_count |-> 0]]
    /\ _console_device = NoDevice /\ shell_device = NoDevice
    /\ holds = [d \in Devices |-> 0]

-----------------------------------------------------------------------------
(* Opening and closing: the devices after a call *)

acquire(D, d) ==
    [D EXCEPT ![d].activated = TRUE, ![d].open = TRUE, ![d].ref_count = @ + 1]

\* With _portal_init and _portal_open
rt_device_open(D, d) ==
    IF d \in Portals
    THEN acquire(acquire(acquire(D, read_dev[d]), write_dev[d]), d)
    ELSE acquire(D, d)

\* Closing comes with the devices whose close handlers fail. rt_device_close
\* returns their errors, which none of its callers in the kernel looks at.

\* Faulty: the first one to close a device closes it for all.
release_for_all(D, d, failing) ==
    IF D[d].ref_count = 0 THEN D
    ELSE [D EXCEPT ![d].open = @ /\ d \in failing, ![d].ref_count = @ - 1]

\* A device whose close handler fails stays open, with nobody counted.
release(D, d, failing) ==
    IF D[d].ref_count = 0 THEN D
    ELSE [D EXCEPT ![d].open = @ /\ (D[d].ref_count # 1 \/ d \in failing),
                   ![d].ref_count = @ - 1]

\* With _portal_close
rt_device_close(D, d, failing) ==
    IF d \in Portals /\ D[d].ref_count = 1
    THEN release(release(release(D, d, failing), write_dev[d], failing), read_dev[d], failing)
    ELSE release(D, d, failing)

ClosedFor(D, d, failing) == IF d = NoDevice THEN D ELSE rt_device_close(D, d, failing)
MayOpen(D, d) == d \in Portals => D[d].ref_count = 0

-----------------------------------------------------------------------------
(* Callers *)

open(d) ==
    /\ MayOpen(devices, d) /\ holds[d] < MaxOpens
    /\ devices' = rt_device_open(devices, d)
    /\ holds' = [holds EXCEPT ![d] = @ + 1]
    /\ UNCHANGED <<_console_device, shell_device>>

\* init fails, or open does: the device is initialized all the same.
open_refused(d) ==
    /\ d \in Refusing
    /\ \/ ~devices[d].activated /\ UNCHANGED devices
       \/ devices' = [devices EXCEPT ![d].activated = TRUE]
    /\ UNCHANGED <<_console_device, shell_device, holds>>

close(d, failing) ==
    /\ holds[d] > 0
    /\ devices' = rt_device_close(devices, d, failing)
    /\ holds' = [holds EXCEPT ![d] = @ - 1]
    /\ UNCHANGED <<_console_device, shell_device>>

\* The old console is closed before the new one, which may be the same, opens.
rt_console_set_device(d, failing) ==
    LET D == ClosedFor(devices, _console_device, failing)
    IN  /\ d \notin Refusing /\ MayOpen(D, d)
        /\ devices' = rt_device_open(D, d)
        /\ _console_device' = d
        /\ UNCHANGED <<shell_device, holds>>

\* finsh_thread_entry: the shell begins on the console.
shell_starts ==
    /\ shell_device = NoDevice /\ _console_device # NoDevice
    /\ MayOpen(devices, _console_device)
    /\ devices' = [rt_device_open(devices, _console_device)
                     EXCEPT ![_console_device].rx_indicate = TRUE]
    /\ shell_device' = _console_device
    /\ UNCHANGED <<_console_device, holds>>

\* Only when the new device is open the old one is closed and no longer heard;
\* the shell stays where it was when the new one refuses (open_refused).
finsh_set_device(d, failing) ==
    /\ d # shell_device /\ MayOpen(devices, d)
    /\ LET D == ClosedFor(rt_device_open(devices, d), shell_device, failing)
       IN  devices' = [x \in Devices |->
                         [D[x] EXCEPT !.rx_indicate = IF x = d THEN TRUE
                                                      ELSE IF x = shell_device THEN FALSE
                                                      ELSE @]]
    /\ shell_device' = d
    /\ UNCHANGED <<_console_device, holds>>

DeviceNext ==
    \/ \E d \in Devices : open(d) \/ open_refused(d)
    \/ \E d \in Devices, failing \in SUBSET Unclosing :
          close(d, failing) \/ rt_console_set_device(d, failing) \/ finsh_set_device(d, failing)
    \/ shell_starts

DeviceSpec == DeviceInit /\ [][DeviceNext]_device_vars

-----------------------------------------------------------------------------
(* Properties *)

Holders(d) ==
    holds[d]
    + Cardinality({u \in {"console", "shell"} :
                      d = IF u = "console" THEN _console_device ELSE shell_device})
    + Cardinality({p \in Portals : devices[p].open /\ d \in Pipes(p)})

\* Whichever of its users closes it first, a device is open while somebody has it
\* open, and after that only if its close handler failed; its count names its
\* users, and only the device of the shell reports its input to the shell
\* (rt_device_open, rt_device_close, rt_console_set_device, finsh_set_device,
\* _portal_open, _portal_close).
DevicesHeld ==
    \A d \in Devices :
        /\ devices[d].ref_count = Holders(d)
        /\ Holders(d) > 0 => devices[d].open
        /\ devices[d].open => Holders(d) > 0 \/ d \in Unclosing
        /\ devices[d].open => devices[d].activated
        /\ devices[d].rx_indicate <=> d = shell_device
=============================================================================
