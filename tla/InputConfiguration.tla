-------------------------- MODULE InputConfiguration --------------------------
(***************************************************************************)
(* usc::MirInputConfiguration keeps the settings of mice and touchpads and *)
(* applies them to the devices; usc::UnityInputService calls its setters   *)
(* from the D-Bus loop thread.                                             *)
(*                                                                         *)
(* Mir adds and removes devices in a thread of its own.  device_added()    *)
(* and device_removed() take devices_lock; the setters do not, so that     *)
(* their steps fall between those of Mir's thread.  A setter changes a     *)
(* setting and then applies it to each device of the kind; device_added()  *)
(* inserts the device and then applies the settings to it.                 *)
(*                                                                         *)
(* A setting is handed to Mir's Device by reference, without a lock: it is *)
(* read some time before the device has it.  For Mir's thread the two are  *)
(* steps of their own.  A setter reads and applies in one step: only its   *)
(* own thread writes, so that what it has read is still the setting when   *)
(* the device has it.                                                      *)
(*                                                                         *)
(* Iterating over an unordered_set while another thread inserts or erases  *)
(* is undefined: the rest of the loop may visit any of the devices.  (That *)
(* it may crash as well is left out.)                                      *)
(*                                                                         *)
(* Each button, speed and switch is one of the settings of its kind.  The  *)
(* two scroll scales and the four switches of touchpads are alike: a setter *)
(* changes one and leaves the others.  A speed is counted in halves, with  *)
(* 0 .. 2 for the range 0.0 .. 1.0.                                        *)
(***************************************************************************)
EXTENDS Integers

CONSTANTS
    Device,
    NoDevice,
    HasTouchpad,    \* devices with the capability touchpad
    HasPointer,     \* devices with the capability pointer
    Speed,          \* what clients pass as the speed of the cursor
    Switch          \* the touchpad settings that are on or off

ASSUME DeviceAssumption ==
    /\ NoDevice \notin Device
    /\ HasTouchpad \subseteq Device
    /\ HasPointer \subseteq Device
    /\ Speed \subseteq Int

VARIABLES
    \* members of MirInputConfiguration
    pointer_config,     \* mouse_pointer_config and touchpad_pointer_config
    touchpad_config,
    devices,            \* the sets mice and touchpads
    \* Mir's devices, and what was last applied to them
    plugged,
    pointer_of,
    touchpad_of,
    \* the two threads
    call,       \* the kind whose devices a setter is updating, or "none"
    todo,       \* <<device, part of its configuration>> it has still to apply
    adding,     \* the device Mir's thread is adding
    at,         \* and its next step
    pointer_read,   \* the settings it has read and not yet applied
    touchpad_read,
    raced       \* history: the kinds whose last setter met a change of the set,
                \* or changed a setting that Mir's thread had read before

settings == <<pointer_config, touchpad_config>>
applied == <<pointer_of, touchpad_of>>
setter == <<call, todo>>
mir == <<adding, at, pointer_read, touchpad_read>>
vars == <<settings, devices, plugged, applied, setter, mir, raced>>

Kind == {"mouse", "touchpad"}
PointerConfig == [handedness : {"right", "left"}, bias : -1 .. 1]
TouchpadConfig == [Switch -> BOOLEAN]

\* A device with both capabilities is a touchpad.
of_kind(kind) ==
    IF kind = "touchpad" THEN HasTouchpad ELSE HasPointer \ HasTouchpad
kind_of(d) == IF d \in HasTouchpad THEN "touchpad" ELSE "mouse"

TypeOK ==
    /\ pointer_config \in [Kind -> PointerConfig]
    /\ touchpad_config \in TouchpadConfig
    /\ devices \in [Kind -> SUBSET plugged]
    /\ \A kind \in Kind : devices[kind] \subseteq of_kind(kind)
    /\ plugged \subseteq Device
    /\ pointer_of \in [Device -> PointerConfig]
    /\ touchpad_of \in [Device -> TouchpadConfig]
    /\ call \in Kind \cup {"none"}
    /\ todo \subseteq Device \X {"pointer", "touchpad"}
    /\ adding \in plugged \cup {NoDevice}
    /\ at \in {"idle", "insert", "read_pointer", "apply_pointer", "read_touchpad",
              "apply_touchpad"}
    /\ pointer_read \in PointerConfig
    /\ touchpad_read \in TouchpadConfig
    /\ raced \subseteq Kind

default_pointer == [handedness |-> "right", bias |-> 0]
default_touchpad == [s \in Switch |-> FALSE]

Init ==
    /\ pointer_config = [kind \in Kind |-> default_pointer]
    /\ touchpad_config = default_touchpad
    /\ devices = [kind \in Kind |-> {}]
    /\ plugged = {}
    /\ pointer_of = [d \in Device |-> default_pointer]
    /\ touchpad_of = [d \in Device |-> default_touchpad]
    /\ call = "none"
    /\ todo = {}
    /\ adding = NoDevice
    /\ at = "idle"
    /\ pointer_read = default_pointer
    /\ touchpad_read = default_touchpad
    /\ raced = {}

-----------------------------------------------------------------------------
\* Mir's Device takes a configuration.
apply_pointer(d, config) ==
    /\ pointer_of' = [pointer_of EXCEPT ![d] = config]
    /\ UNCHANGED touchpad_of

apply_touchpad(d, config) ==
    /\ touchpad_of' = [touchpad_of EXCEPT ![d] = config]
    /\ UNCHANGED pointer_of

\* What an update applies to the devices ds.
parts(ds) ==
    ds \X {"pointer"} \cup (ds \cap HasTouchpad) \X {"touchpad"}

-----------------------------------------------------------------------------
\* The setters, called by UnityInputService::handle_message, which forwards a
\* call when its argument has the right type.

to_update_mice_only(kind) == parts(devices["mouse"])
\* update_mice() and update_touchpads() begin.
to_update(kind) == parts(devices[kind])

\* What Mir's thread is about to apply to a device of the kind is not what the
\* setter makes of the setting.
outdated(kind) ==
    /\ kind_of(adding) = kind
    /\ \/ at = "apply_pointer" /\ pointer_read # pointer_config'[kind]
       \/ at = "apply_touchpad" /\ touchpad_read # touchpad_config'

update(kind) ==
    /\ call = "none"
    /\ call' = kind
    /\ todo' = to_update(kind)
    /\ raced' = IF outdated(kind) THEN raced \cup {kind} ELSE raced \ {kind}
    /\ UNCHANGED <<devices, plugged, applied, mir>>

clamp_above_only(speed) == IF speed > 2 THEN 2 ELSE speed
clamp(speed) == IF speed < 0 THEN 0 ELSE IF speed > 2 THEN 2 ELSE speed

set_primary_button(kind, button) ==
    /\ pointer_config' = [pointer_config EXCEPT ![kind].handedness =
                              IF button = 0 THEN "right" ELSE "left"]
    /\ UNCHANGED touchpad_config
    /\ update(kind)

\* clamped * 2.0 - 1.0
set_cursor_speed(kind, speed) ==
    /\ pointer_config' = [pointer_config EXCEPT ![kind].bias = clamp(speed) - 1]
    /\ UNCHANGED touchpad_config
    /\ update(kind)

set_switch(switch, enable) ==
    /\ touchpad_config' = [touchpad_config EXCEPT ![switch] = enable]
    /\ UNCHANGED pointer_config
    /\ update("touchpad")

\* One call of the loop over the devices; a touchpad's pointer comes first.
configure_next ==
    /\ call # "none"
    /\ \E d \in Device :
          \/ /\ <<d, "pointer">> \in todo
             /\ apply_pointer(d, pointer_config[kind_of(d)])
             /\ todo' = todo \ {<<d, "pointer">>}
          \/ /\ <<d, "touchpad">> \in todo /\ <<d, "pointer">> \notin todo
             /\ apply_touchpad(d, touchpad_config)
             /\ todo' = todo \ {<<d, "touchpad">>}
    /\ UNCHANGED <<settings, devices, plugged, call, mir, raced>>

\* The setter returns, and the service replies.
reply ==
    /\ call # "none"
    /\ todo = {}
    /\ call' = "none"
    /\ UNCHANGED <<settings, devices, plugged, applied, todo, mir, raced>>

-----------------------------------------------------------------------------
\* Mir's thread

\* The set of a kind changes, perhaps under the loop over it.
change_devices(kind, ds) ==
    /\ devices' = [devices EXCEPT ![kind] = ds]
    /\ \/ call # kind /\ UNCHANGED <<todo, raced>>
       \/ /\ call = kind
          /\ todo' \in SUBSET parts(devices[kind] \cup ds)
          /\ raced' = raced \cup {kind}
    /\ UNCHANGED call

plug(d) ==
    /\ at = "idle"
    /\ d \notin plugged
    /\ plugged' = plugged \cup {d}
    /\ pointer_of' = [pointer_of EXCEPT ![d] = default_pointer]
    /\ touchpad_of' = [touchpad_of EXCEPT ![d] = default_touchpad]
    /\ adding' = d
    /\ at' = "insert"
    /\ UNCHANGED <<settings, devices, setter, pointer_read, touchpad_read, raced>>

pointer_only(d) == "idle"
\* What follows apply_pointer_configuration() in device_added().
after_pointer(d) == IF d \in HasTouchpad THEN "read_touchpad" ELSE "idle"

\* device_added(), under devices_lock: the insertion ...
device_added_insert ==
    /\ at = "insert"
    /\ \/ /\ adding \in HasTouchpad \cup HasPointer
          /\ change_devices(kind_of(adding), devices[kind_of(adding)] \cup {adding})
          /\ at' = "read_pointer"
       \/ /\ adding \notin HasTouchpad \cup HasPointer
          /\ at' = "idle"
          /\ UNCHANGED <<devices, setter, raced>>
    /\ adding' = IF at' = "idle" THEN NoDevice ELSE adding
    /\ UNCHANGED <<settings, plugged, applied, pointer_read, touchpad_read>>

\* ... and configure_mouse() or configure_touchpad(): a setting is read ...
device_added_read ==
    /\ \/ /\ at = "read_pointer"
          /\ pointer_read' = pointer_config[kind_of(adding)]
          /\ at' = "apply_pointer"
          /\ UNCHANGED touchpad_read
       \/ /\ at = "read_touchpad"
          /\ touchpad_read' = touchpad_config
          /\ at' = "apply_touchpad"
          /\ UNCHANGED pointer_read
    /\ UNCHANGED <<settings, devices, plugged, applied, setter, adding, raced>>

\* ... and the device has it.
device_added_configure ==
    /\ \/ at = "apply_pointer" /\ apply_pointer(adding, pointer_read) /\ at' = after_pointer(adding)
       \/ at = "apply_touchpad" /\ apply_touchpad(adding, touchpad_read) /\ at' = "idle"
    /\ adding' = IF at' = "idle" THEN NoDevice ELSE adding
    /\ pointer_read' = default_pointer
    /\ touchpad_read' = default_touchpad
    /\ UNCHANGED <<settings, devices, plugged, setter, raced>>

\* The device is unplugged: device_removed() under devices_lock.
device_removed(d) ==
    /\ at = "idle"
    /\ d \in plugged
    /\ plugged' = plugged \ {d}
    /\ \/ d \in devices[kind_of(d)]
          /\ change_devices(kind_of(d), devices[kind_of(d)] \ {d})
       \/ d \notin devices[kind_of(d)] /\ UNCHANGED <<devices, setter, raced>>
    /\ UNCHANGED <<settings, applied, mir>>

-----------------------------------------------------------------------------
Setters ==
    \/ \E kind \in Kind :
          \/ \E button \in {0, 1} : set_primary_button(kind, button)
          \/ \E speed \in Speed : set_cursor_speed(kind, speed)
    \/ \E switch \in Switch, enable \in BOOLEAN : set_switch(switch, enable)
    \/ configure_next
    \/ reply

MirThread ==
    \/ \E d \in Device : plug(d) \/ device_removed(d)
    \/ device_added_insert
    \/ device_added_read
    \/ device_added_configure

Next == Setters \/ MirThread

Spec == Init /\ [][Next]_vars

-----------------------------------------------------------------------------
configured(d) ==
    /\ pointer_of[d] = pointer_config[kind_of(d)]
    /\ d \in HasTouchpad => touchpad_of[d] = touchpad_config

\* Although the setters do not lock: once a setter and the addition of a
\* device are both done, every device has all the settings of its kind, unless
\* the set changed under the setter's loop, or the setter changed a setting
\* between its reading and its application in device_added().  Then a device
\* may miss it; the next setter of the kind makes up for that.
DevicesConfigured ==
    \A kind \in Kind \ ({call} \cup raced) :
        \A d \in devices[kind] \ {adding} : configured(d)
=============================================================================
