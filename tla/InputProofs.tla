------------------------------ MODULE InputProofs ------------------------------
(***************************************************************************)
(* Theorems about the two components between Mir's input and the clients.  *)
(*                                                                         *)
(* MirInputConfiguration: for every set of devices and switches, which     *)
(* devices may miss a setting, although the setters do not lock: only      *)
(* those of a kind whose set changed under the loop of the last setter, or *)
(* of which Mir's thread had read a setting that this setter changed.      *)
(*                                                                         *)
(* ScreenEventHandler: the throttle, for any threads, period, duration of  *)
(* a report and time.                                                      *)
(***************************************************************************)
EXTENDS InputConfiguration, ScreenEventHandler, TLAPS

-----------------------------------------------------------------------------
\* MirInputConfiguration

\* The bias a speed is turned into is in the range Mir allows.
LEMMA ClampRange == \A speed \in Speed : clamp(speed) - 1 \in -1 .. 1
BY DeviceAssumption DEF clamp

\* A device that is registered is registered under its kind.
LEMMA KindOf ==
    ASSUME NEW kind \in Kind, NEW d \in of_kind(kind)
    PROVE  kind_of(d) = kind /\ d \in Device
BY DeviceAssumption DEF Kind, of_kind, kind_of

\* The types, and which devices Mir's thread is adding at which step
TypeInv ==
    /\ TypeOK
    /\ at = "idle" <=> adding = NoDevice
    /\ at \in {"read_touchpad", "apply_touchpad"} => adding \in HasTouchpad

-----------------------------------------------------------------------------
\* Every setter keeps the types.
LEMMA SettersType == TypeOK /\ Setters => TypeOK'
<1> SUFFICES ASSUME TypeOK, Setters
             PROVE  TypeOK'
  OBVIOUS
<1> USE DeviceAssumption DEF TypeOK
<1>1. \A kind \in Kind : parts(devices[kind]) \subseteq Device \X {"pointer", "touchpad"}
  BY DEF parts, of_kind, Kind
<1>2. ASSUME NEW kind \in Kind, NEW button \in {0, 1}, set_primary_button(kind, button)
      PROVE  TypeOK'
  BY <1>1, <1>2
  DEF set_primary_button, update, to_update, applied, mir, PointerConfig
<1>3. ASSUME NEW kind \in Kind, NEW speed \in Speed, set_cursor_speed(kind, speed)
      PROVE  TypeOK'
  <2>1. pointer_config' \in [Kind -> PointerConfig]
    BY <1>3, ClampRange DEF set_cursor_speed, PointerConfig
  <2> QED
    BY <1>1, <1>3, <2>1 DEF set_cursor_speed, update, to_update, applied, mir
<1>4. ASSUME NEW switch \in Switch, NEW enable \in BOOLEAN, set_switch(switch, enable)
      PROVE  TypeOK'
  BY <1>1, <1>4
  DEF set_switch, update, to_update, applied, mir, TouchpadConfig, Kind
<1>5. CASE configure_next
  <2>1. \A d \in Device : kind_of(d) \in Kind
    BY DEF kind_of, Kind
  <2> QED
    BY <1>5, <2>1 DEF configure_next, apply_pointer, apply_touchpad, settings, mir
<1>6. CASE reply
  BY <1>6 DEF reply, settings, applied, mir
<1> QED
  BY <1>2, <1>3, <1>4, <1>5, <1>6 DEF Setters

\* Every step of Mir's thread keeps the types.
LEMMA MirType == TypeInv /\ MirThread => TypeInv'
<1> SUFFICES ASSUME TypeInv, MirThread
             PROVE  TypeInv'
  OBVIOUS
<1> USE DeviceAssumption DEF TypeInv, TypeOK
<1>k. \A d \in Device : kind_of(d) \in Kind
  BY DEF kind_of, Kind
<1>1. ASSUME NEW kind \in Kind, NEW ds \in SUBSET of_kind(kind), change_devices(kind, ds)
      PROVE  /\ devices' = [devices EXCEPT ![kind] = ds]
             /\ call' \in Kind \cup {"none"}
             /\ todo' \subseteq Device \X {"pointer", "touchpad"}
             /\ raced' \subseteq Kind
  <2>1. parts(devices[kind] \cup ds) \subseteq Device \X {"pointer", "touchpad"}
    BY DEF parts, of_kind, Kind
  <2> QED
    BY <1>1, <2>1 DEF change_devices
<1>2. ASSUME NEW d \in Device, plug(d)
      PROVE  TypeInv'
  BY <1>2
  DEF plug, settings, setter, default_pointer, default_touchpad, PointerConfig, TouchpadConfig
<1>3. CASE device_added_insert
  <2>1. CASE /\ adding \in HasTouchpad \cup HasPointer
             /\ change_devices(kind_of(adding), devices[kind_of(adding)] \cup {adding})
             /\ at' = "read_pointer"
    <3> DEFINE kind == kind_of(adding)
               ds == devices[kind] \cup {adding}
    <3>1. adding \in Device /\ adding \in plugged /\ kind \in Kind /\ adding' = adding
      BY <1>3, <2>1, <1>k DEF device_added_insert
    <3>2. ds \subseteq of_kind(kind) \cap plugged
      BY <2>1, <3>1 DEF of_kind, kind_of
    <3> HIDE DEF kind, ds
    <3>3. change_devices(kind, ds)
      BY <2>1 DEF kind, ds
    <3>4. devices' \in [Kind -> SUBSET plugged] /\ \A k \in Kind : devices'[k] \subseteq of_kind(k)
      BY <1>1, <3>1, <3>2, <3>3
    <3>5. UNCHANGED <<settings, plugged, applied, pointer_read, touchpad_read>> /\ adding # NoDevice /\ at' # "idle"
      BY <1>3, <2>1, <3>1 DEF device_added_insert
    <3> QED
      BY <1>1, <2>1, <3>1, <3>2, <3>3, <3>4, <3>5 DEF settings, applied
  <2>2. CASE adding \notin HasTouchpad \cup HasPointer /\ at' = "idle"
             /\ UNCHANGED <<devices, setter, raced>>
    BY <1>3, <2>2 DEF device_added_insert, settings, applied, setter
  <2> QED
    BY <1>3, <2>1, <2>2 DEF device_added_insert
<1>4. CASE device_added_read
  <2>1. adding \in Device
    BY <1>4 DEF device_added_read
  <2>2. pointer_config[kind_of(adding)] \in PointerConfig
    BY <1>k, <2>1
  <2> QED
    BY <1>4, <2>1, <2>2 DEF device_added_read, settings, applied, setter
<1>6. CASE device_added_configure
  <2>1. adding \in Device
    BY <1>6 DEF device_added_configure
  <2>2. default_pointer \in PointerConfig /\ default_touchpad \in TouchpadConfig
    BY DEF default_pointer, default_touchpad, PointerConfig, TouchpadConfig
  <2> QED
    BY <1>6, <2>1, <2>2
    DEF device_added_configure, apply_pointer, apply_touchpad, after_pointer, settings, setter
<1>5. ASSUME NEW d \in Device, device_removed(d)
      PROVE  TypeInv'
  <2>1. /\ at = "idle" /\ adding = NoDevice /\ plugged' = plugged \ {d}
        /\ UNCHANGED <<adding, at, pointer_read, touchpad_read>>
    BY <1>5 DEF device_removed, mir
  <2>2. \A kind \in Kind : kind # kind_of(d) => d \notin devices[kind]
    BY KindOf
  <2>3. CASE d \in devices[kind_of(d)]
    <3> DEFINE kind == kind_of(d)
               ds == devices[kind] \ {d}
    <3>1. kind \in Kind /\ ds \subseteq of_kind(kind) /\ ds \subseteq plugged'
      BY <1>k, <2>1
    <3>2. \A k \in Kind \ {kind} : devices[k] \subseteq plugged'
      BY <2>1, <2>2
    <3>3. change_devices(kind, ds) /\ UNCHANGED <<settings, applied>>
      BY <1>5, <2>3 DEF device_removed
    <3> HIDE DEF kind, ds
    <3>4. devices' \in [Kind -> SUBSET plugged'] /\ \A k \in Kind : devices'[k] \subseteq of_kind(k)
      BY <1>1, <3>1, <3>2, <3>3
    <3>5. /\ call' \in Kind \cup {"none"}
          /\ todo' \subseteq Device \X {"pointer", "touchpad"}
          /\ raced' \subseteq Kind
      BY <1>1, <3>1, <3>3
    <3>6. /\ plugged' \subseteq Device
          /\ UNCHANGED <<pointer_config, touchpad_config, pointer_of, touchpad_of>>
      BY <2>1, <3>3 DEF settings, applied
    <3> QED
      BY <2>1, <3>4, <3>5, <3>6
  <2>4. CASE d \notin devices[kind_of(d)]
    <3>1. UNCHANGED <<devices, setter, raced, settings, applied>>
      BY <1>5, <2>4 DEF device_removed
    <3>2. \A k \in Kind : devices[k] \subseteq plugged'
      BY <2>1, <2>2, <2>4
    <3> QED
      BY <2>1, <3>1, <3>2 DEF setter, settings, applied
  <2> QED
    BY <2>3, <2>4
<1> QED
  BY <1>2, <1>3, <1>4, <1>5, <1>6 DEF MirThread

\* Every step keeps the types.
LEMMA TypeKept == TypeInv /\ [Next]_vars => TypeInv'
<1> SUFFICES ASSUME TypeInv, [Next]_vars
             PROVE  TypeInv'
  OBVIOUS
<1>1. CASE Setters
  <2>1. UNCHANGED mir
    BY <1>1
    DEF Setters, set_primary_button, set_cursor_speed, set_switch, update,
        configure_next, reply
  <2> QED
    BY <1>1, <2>1, SettersType DEF TypeInv, mir
<1>2. CASE MirThread
  BY <1>2, MirType
<1>3. CASE UNCHANGED vars
  BY <1>3 DEF vars, settings, applied, setter, mir, TypeInv, TypeOK
<1> QED
  BY <1>1, <1>2, <1>3 DEF Next

\* TypeOK: the settings stay in their ranges, also when a speed is out of
\* range, and a registered device is plugged and of the set's kind.
THEOREM TypeCorrect == Spec => []TypeOK
<1>1. Init => TypeInv
  BY DeviceAssumption
  DEF Init, TypeInv, TypeOK, default_pointer, default_touchpad, PointerConfig,
      TouchpadConfig, Kind
<1>2. TypeInv => TypeOK
  BY DEF TypeInv
<1> QED
  BY <1>1, <1>2, TypeKept, PTL DEF Spec

-----------------------------------------------------------------------------
\* Each part of a registered device is as it should be, or the setter under way
\* or the addition of the device has still to come to it.
PointerInv(kind, d) ==
    \/ pointer_of[d] = pointer_config[kind]
    \/ call = kind /\ <<d, "pointer">> \in todo
    \/ d = adding /\ at \in {"read_pointer", "apply_pointer"}

TouchpadInv(kind, d) ==
    \/ touchpad_of[d] = touchpad_config
    \/ call = kind /\ <<d, "touchpad">> \in todo
    \/ d = adding /\ at \in {"read_pointer", "apply_pointer", "read_touchpad", "apply_touchpad"}

\* What Mir's thread has read, and has still to apply to a device of the kind,
\* is the setting.
ReadInv(kind) ==
    kind_of(adding) = kind =>
        /\ at = "apply_pointer" => pointer_read = pointer_config[kind]
        /\ at = "apply_touchpad" => touchpad_read = touchpad_config

ConfigInv ==
    /\ call = "none" => todo = {}
    /\ \A kind \in Kind \ raced : ReadInv(kind)
    /\ \A kind \in Kind \ raced : \A d \in devices[kind] :
          PointerInv(kind, d) /\ (d \in HasTouchpad => TouchpadInv(kind, d))

\* A setter has all devices of its kind before it, and leaves those of the
\* other kind alone: a mouse has no touchpad settings.
LEMMA UpdateKeeps ==
    ASSUME TypeInv, ConfigInv, NEW kind \in Kind, update(kind),
           \A k \in Kind \ {kind} : pointer_config'[k] = pointer_config[k],
           kind = "touchpad" \/ touchpad_config' = touchpad_config
    PROVE  ConfigInv'
<1>1. /\ call = "none" /\ todo = {} /\ call' = kind /\ todo' = parts(devices[kind])
      /\ raced' = IF outdated(kind) THEN raced \cup {kind} ELSE raced \ {kind}
      /\ UNCHANGED <<devices, applied, mir>>
  BY DEF update, to_update, ConfigInv
<1>2. ASSUME NEW k \in Kind \ raced', NEW d \in devices[k]
      PROVE  PointerInv(k, d)' /\ (d \in HasTouchpad => TouchpadInv(k, d)')
  <2>1. CASE k = kind
    BY <1>1, <1>2, <2>1 DEF parts, PointerInv, TouchpadInv
  <2>2. CASE k # kind
    <3>1. PointerInv(k, d) /\ (d \in HasTouchpad => TouchpadInv(k, d))
      BY <1>1, <1>2, <2>2 DEF ConfigInv
    <3>2. d \in HasTouchpad => k = "touchpad"
      BY KindOf DEF TypeInv, TypeOK, kind_of
    <3> QED
      BY <1>1, <2>2, <3>1, <3>2 DEF PointerInv, TouchpadInv, applied, mir
  <2> QED
    BY <2>1, <2>2
<1>3. kind # "none"
  BY DEF Kind
<1>4. ASSUME NEW k \in Kind \ raced'
      PROVE  ReadInv(k)'
  <2>1. UNCHANGED <<adding, at, pointer_read, touchpad_read>> /\ kind_of(adding)' = kind_of(adding)
    BY <1>1 DEF mir, kind_of
  <2>2. CASE k = kind
    BY <1>1, <1>4, <2>1, <2>2 DEF ReadInv, outdated
  <2>3. CASE k # kind
    <3>1. ReadInv(k)
      BY <1>1, <1>4, <2>3 DEF ConfigInv
    <3>2. kind_of(adding) = k /\ at = "apply_touchpad" => k = "touchpad"
      BY DEF kind_of, TypeInv, TypeOK
    <3> QED
      BY <2>1, <2>3, <3>1, <3>2 DEF ReadInv
  <2> QED BY <2>2, <2>3
<1> QED
  BY <1>1, <1>2, <1>3, <1>4 DEF ConfigInv

\* One call of the setter's loop, and its return
LEMMA LoopKeeps ==
    ASSUME TypeInv, ConfigInv, configure_next \/ reply
    PROVE  ConfigInv'
<1>1. CASE configure_next
  <2>1. /\ call # "none" /\ call' = call
        /\ UNCHANGED <<settings, devices, mir, raced>>
    BY <1>1 DEF configure_next
  <2>2. ASSUME NEW kind \in Kind \ raced, NEW d \in devices[kind]
        PROVE  PointerInv(kind, d)' /\ (d \in HasTouchpad => TouchpadInv(kind, d)')
    <3>1. PointerInv(kind, d) /\ (d \in HasTouchpad => TouchpadInv(kind, d))
      BY <2>2 DEF ConfigInv
    <3>2. kind_of(d) = kind /\ d \in Device
      BY KindOf DEF TypeInv, TypeOK
    <3>3. PICK e \in Device :
             \/ /\ apply_pointer(e, pointer_config[kind_of(e)])
                /\ todo' = todo \ {<<e, "pointer">>}
             \/ /\ apply_touchpad(e, touchpad_config)
                /\ todo' = todo \ {<<e, "touchpad">>}
      BY <1>1 DEF configure_next
    <3>4. CASE /\ apply_pointer(e, pointer_config[kind_of(e)])
               /\ todo' = todo \ {<<e, "pointer">>}
      BY <2>1, <3>1, <3>2, <3>4
      DEF apply_pointer, PointerInv, TouchpadInv, settings, mir, TypeInv, TypeOK
    <3>5. CASE apply_touchpad(e, touchpad_config) /\ todo' = todo \ {<<e, "touchpad">>}
      BY <2>1, <3>1, <3>2, <3>5
      DEF apply_touchpad, PointerInv, TouchpadInv, settings, mir, TypeInv, TypeOK
    <3> QED
      BY <3>3, <3>4, <3>5
  <2>3. \A kind \in Kind \ raced : ReadInv(kind)'
    BY <2>1 DEF ConfigInv, ReadInv, settings, mir
  <2> QED
    BY <2>1, <2>2, <2>3 DEF ConfigInv
<1>2. CASE reply
  BY <1>2 DEF reply, ConfigInv, ReadInv, PointerInv, TouchpadInv, settings, applied, mir
<1> QED
  BY <1>1, <1>2

\* Mir's thread: a device that is added gets both parts after it is inserted,
\* and a set that changes under the setter's loop is remembered in raced.
LEMMA MirKeeps ==
    ASSUME TypeInv, ConfigInv, MirThread
    PROVE  ConfigInv'
<1>1. ASSUME NEW d \in Device, plug(d)
      PROVE  ConfigInv'
  <2>1. /\ UNCHANGED <<settings, devices, setter, raced>> /\ at = "idle"
        /\ d \notin plugged
        /\ \A e \in Device \ {d} :
              pointer_of'[e] = pointer_of[e] /\ touchpad_of'[e] = touchpad_of[e]
    BY <1>1 DEF plug, TypeInv, TypeOK
  <2>2. \A kind \in Kind : \A e \in devices[kind] : e \in Device \ {d}
    BY <2>1 DEF TypeInv, TypeOK
  <2>3. at' = "insert"
    BY <1>1 DEF plug
  <2> QED
    BY <2>1, <2>2, <2>3 DEF ConfigInv, ReadInv, PointerInv, TouchpadInv, settings, setter
<1>2. ASSUME NEW kind \in Kind, NEW ds, change_devices(kind, ds),
             UNCHANGED <<settings, applied>>, adding' = adding,
             ds \subseteq devices[kind] \cup {adding},
             UNCHANGED <<pointer_read, touchpad_read>>,
             adding \in ds => at' = "read_pointer",
             at' = at \/ (at = "insert" /\ at' = "read_pointer")
      PROVE  ConfigInv'
  <2>1. devices' = [devices EXCEPT ![kind] = ds] /\ call' = call
    BY <1>2 DEF change_devices
  <2>2. ASSUME NEW k \in Kind \ raced', NEW d \in devices'[k]
        PROVE  PointerInv(k, d)' /\ (d \in HasTouchpad => TouchpadInv(k, d)')
    <3>1. k \notin raced /\ (call = k => k # kind)
      BY <1>2, <2>2 DEF change_devices
    <3>2. CASE d \in devices[k]
      <4>1. PointerInv(k, d) /\ (d \in HasTouchpad => TouchpadInv(k, d))
        BY <2>2, <3>1, <3>2 DEF ConfigInv
      <4>2. call = k => todo' = todo
        BY <1>2, <3>1 DEF change_devices
      <4> QED
        BY <1>2, <2>1, <4>1, <4>2 DEF PointerInv, TouchpadInv, settings, applied
    <3>3. CASE d \notin devices[k]
      <4>1. d = adding /\ at' = "read_pointer"
        BY <1>2, <2>1, <2>2, <3>3 DEF TypeInv, TypeOK
      <4> QED
        BY <1>2, <4>1 DEF PointerInv, TouchpadInv
    <3> QED
      BY <3>2, <3>3
  <2>3. call' = "none" => todo' = {}
    BY <1>2, <2>1 DEF change_devices, ConfigInv, Kind
  <2>4. \A k \in Kind \ raced' : ReadInv(k)'
    BY <1>2 DEF change_devices, ConfigInv, ReadInv, settings
  <2> QED
    BY <2>2, <2>3, <2>4 DEF ConfigInv
<1>3. CASE device_added_insert
  <2>1. CASE adding \in HasTouchpad \cup HasPointer
    <3>1. /\ change_devices(kind_of(adding), devices[kind_of(adding)] \cup {adding})
          /\ at = "insert" /\ at' = "read_pointer" /\ adding' = adding
          /\ UNCHANGED <<settings, applied, pointer_read, touchpad_read>>
      BY <1>3, <2>1 DEF device_added_insert
    <3>2. kind_of(adding) \in Kind
      BY DEF kind_of, Kind
    <3> QED
      BY <1>2, <3>1, <3>2
  <2>2. CASE adding \notin HasTouchpad \cup HasPointer
    BY <1>3, <2>2
    DEF device_added_insert, ConfigInv, ReadInv, PointerInv, TouchpadInv, settings, applied, setter
  <2> QED
    BY <2>1, <2>2
<1>4. CASE device_added_read
  <2>1. /\ UNCHANGED <<settings, devices, applied, setter, adding, raced>>
        /\ \/ /\ at = "read_pointer" /\ at' = "apply_pointer"
              /\ pointer_read' = pointer_config[kind_of(adding)]
           \/ /\ at = "read_touchpad" /\ at' = "apply_touchpad"
              /\ touchpad_read' = touchpad_config
    BY <1>4 DEF device_added_read
  <2>2. ASSUME NEW kind \in Kind \ raced
        PROVE  ReadInv(kind)'
    BY <2>1 DEF ReadInv, settings
  <2>3. ASSUME NEW kind \in Kind \ raced, NEW d \in devices[kind]
        PROVE  PointerInv(kind, d)' /\ (d \in HasTouchpad => TouchpadInv(kind, d)')
    <3>1. PointerInv(kind, d) /\ (d \in HasTouchpad => TouchpadInv(kind, d))
      BY <2>3 DEF ConfigInv
    <3> QED
      BY <2>1, <3>1 DEF PointerInv, TouchpadInv, settings, applied, setter
  <2> QED
    BY <2>1, <2>2, <2>3 DEF ConfigInv, setter
<1>6. CASE device_added_configure
  <2>1. /\ UNCHANGED <<settings, devices, setter, raced>>
        /\ \/ /\ at = "apply_pointer" /\ apply_pointer(adding, pointer_read)
              /\ at' = after_pointer(adding)
           \/ /\ at = "apply_touchpad" /\ apply_touchpad(adding, touchpad_read)
              /\ at' = "idle"
        /\ adding' = IF at' = "idle" THEN NoDevice ELSE adding
    BY <1>6 DEF device_added_configure
  <2>2. ASSUME NEW kind \in Kind \ raced, NEW d \in devices[kind]
        PROVE  PointerInv(kind, d)' /\ (d \in HasTouchpad => TouchpadInv(kind, d)')
    <3>1. /\ PointerInv(kind, d) /\ (d \in HasTouchpad => TouchpadInv(kind, d))
          /\ ReadInv(kind)
      BY <2>2 DEF ConfigInv
    <3>2. kind_of(d) = kind /\ d \in Device
      BY KindOf DEF TypeInv, TypeOK
    <3>3. CASE d = adding
      BY <2>1, <3>1, <3>2, <3>3
      DEF apply_pointer, apply_touchpad, after_pointer, PointerInv, TouchpadInv, ReadInv,
          settings, setter, TypeInv, TypeOK
    <3>4. CASE d # adding
      BY <2>1, <3>1, <3>2, <3>4
      DEF apply_pointer, apply_touchpad, PointerInv, TouchpadInv, settings, setter, TypeInv,
          TypeOK
    <3> QED
      BY <3>3, <3>4
  <2>3. \A kind \in Kind : ReadInv(kind)'
    BY <2>1 DEF ReadInv, after_pointer
  <2> QED
    BY <2>1, <2>2, <2>3 DEF ConfigInv, setter
<1>5. ASSUME NEW d \in Device, device_removed(d)
      PROVE  ConfigInv'
  <2>1. at = "idle" /\ adding = NoDevice /\ UNCHANGED <<settings, applied, mir>>
    BY <1>5 DEF device_removed, TypeInv
  <2>2. CASE d \in devices[kind_of(d)]
    <3>1. change_devices(kind_of(d), devices[kind_of(d)] \ {d})
      BY <1>5, <2>2 DEF device_removed
    <3>2. kind_of(d) \in Kind /\ adding \notin devices[kind_of(d)] \ {d}
      BY <2>1, DeviceAssumption DEF kind_of, Kind, TypeInv, TypeOK
    <3> QED
      BY <1>2, <2>1, <3>1, <3>2 DEF mir
  <2>3. CASE d \notin devices[kind_of(d)]
    BY <1>5, <2>1, <2>3
    DEF device_removed, ConfigInv, ReadInv, PointerInv, TouchpadInv, settings, applied, mir,
        setter
  <2> QED
    BY <2>2, <2>3
<1> QED
  BY <1>1, <1>3, <1>4, <1>5, <1>6 DEF MirThread

\* DevicesConfigured: a device of which neither a setter nor its addition is
\* under way has all the settings of its kind, unless the kind's last setter
\* met a change of the set or a setting read before it.
THEOREM SettingsReachDevices == Spec => []DevicesConfigured
<1>1. Init => TypeInv /\ ConfigInv
  BY DeviceAssumption
  DEF Init, TypeInv, TypeOK, default_pointer, default_touchpad, PointerConfig,
      TouchpadConfig, Kind, ConfigInv, ReadInv
<1>2. TypeInv /\ ConfigInv /\ [Next]_vars => (TypeInv /\ ConfigInv)'
  <2> SUFFICES ASSUME TypeInv, ConfigInv, [Next]_vars
               PROVE  TypeInv' /\ ConfigInv'
    OBVIOUS
  <2>1. ASSUME NEW kind \in Kind, NEW button \in {0, 1}, set_primary_button(kind, button)
        PROVE  ConfigInv'
    BY <2>1, UpdateKeeps DEF set_primary_button, TypeInv, TypeOK
  <2>2. ASSUME NEW kind \in Kind, NEW speed \in Speed, set_cursor_speed(kind, speed)
        PROVE  ConfigInv'
    BY <2>2, UpdateKeeps DEF set_cursor_speed, TypeInv, TypeOK
  <2>3. ASSUME NEW switch \in Switch, NEW enable \in BOOLEAN, set_switch(switch, enable)
        PROVE  ConfigInv'
    <3>1. "touchpad" \in Kind /\ pointer_config' = pointer_config
      BY <2>3 DEF set_switch, Kind
    <3> QED
      BY <2>3, <3>1, UpdateKeeps DEF set_switch
  <2>4. ASSUME UNCHANGED vars
        PROVE  ConfigInv'
    BY <2>4
    DEF vars, settings, applied, setter, mir, ConfigInv, ReadInv, PointerInv, TouchpadInv
  <2>5. ConfigInv'
    BY <2>1, <2>2, <2>3, <2>4, LoopKeeps, MirKeeps DEF Next, Setters
  <2>6. TypeInv'
    BY TypeKept
  <2> QED
    BY <2>5, <2>6
<1>3. TypeInv /\ ConfigInv => DevicesConfigured
  <2> SUFFICES ASSUME TypeInv, ConfigInv,
                      NEW kind \in Kind \ ({call} \cup raced), NEW d \in devices[kind] \ {adding}
               PROVE  configured(d)
    BY DEF DevicesConfigured
  <2>1. kind_of(d) = kind
    BY KindOf DEF TypeInv, TypeOK
  <2> QED
    BY <2>1 DEF ConfigInv, PointerInv, TouchpadInv, configured
<1> QED
  BY <1>1, <1>2, <1>3, PTL DEF Spec

-----------------------------------------------------------------------------
\* ScreenEventHandler

\* The kind of activity a thread is reporting under event_mutex
Reporting(a) == event_mutex # NoThread /\ handling[event_mutex] = a

\* The two readings of the clock are no further apart than a report takes: the
\* second is between the first and MaxReport later, or still to come.
ClockInv ==
    /\ event_mutex # NoThread => handling[event_mutex] # "none"
    /\ \A t \in Thread : arrived[t] <= now
    /\ \A a \in Activity :
          IF Reporting(a)
          THEN now <= reported[a] + MaxReport
          ELSE reported[a] <= last[a] /\ last[a] <= reported[a] + MaxReport

ThrottleInv == HandlerTypeOK /\ ClockInv /\ MissedSoonAfterReport

\* Both readings of the constructor are a period ago.
LEMMA ThrottleInit == HandlerInit => ThrottleInv
BY HandlerAssumption
DEF HandlerInit, ThrottleInv, HandlerTypeOK, ClockInv, Reporting, MissedSoonAfterReport,
    Activity, Time, PastOrTime

\* handle() and the throttle keep what is known of the clock.
LEMMA ThrottleStep == ThrottleInv /\ [HandlerNext]_handler_vars => ThrottleInv'
<1> SUFFICES ASSUME ThrottleInv, [HandlerNext]_handler_vars
             PROVE  ThrottleInv'
  OBVIOUS
<1> USE HandlerAssumption
    DEF ThrottleInv, HandlerTypeOK, ClockInv, Reporting, MissedSoonAfterReport, Activity,
        Time, PastOrTime
<1>1. ASSUME NEW t \in Thread, NEW e \in Event, handle(t, e)
      PROVE  ThrottleInv'
  <2>1. activity(e) \in Activity
    BY <1>1 DEF handle, activity
  <2>2. event_mutex # t
    BY <1>1 DEF handle
  <2> QED
    BY <1>1, <2>1, <2>2 DEF handle
<1>2. ASSUME NEW t \in Thread, begin_report(t)
      PROVE  ThrottleInv'
  <2> DEFINE a == handling[t]
  <2>1. a \in Activity /\ event_mutex = NoThread
    BY <1>2 DEF begin_report, may_lock
  <2>2. now >= last[a] + event_period
    BY <1>2 DEF begin_report, last_of
  <2>3. reported' = [reported EXCEPT ![a] = now] /\ event_mutex' = t
    BY <1>2 DEF begin_report
  <2>4. UNCHANGED <<last, handling, arrived, now, missed>>
    BY <1>2 DEF begin_report
  <2>5. reported[a] <= now
    BY <2>1
  <2> QED
    BY <2>1, <2>2, <2>3, <2>4, <2>5
<1>3. ASSUME NEW t \in Thread, do_not_report(t)
      PROVE  ThrottleInv'
  BY <1>3 DEF do_not_report, may_lock, last_of
<1>4. ASSUME NEW t \in Thread, end_report(t)
      PROVE  ThrottleInv'
  BY <1>4 DEF end_report, end_of_report
<1>5. CASE tick
  BY <1>5 DEF tick
<1>6. CASE UNCHANGED handler_vars
  BY <1>6 DEF handler_vars
<1> QED
  BY <1>1, <1>2, <1>3, <1>4, <1>5, <1>6 DEF HandlerNext

\* MissedSoonAfterReport: an activity of which nothing is reported came less
\* than a period after a report of its own kind had ended.
THEOREM MissedSoon == HandlerSpec => []MissedSoonAfterReport
<1>1. ThrottleInv => MissedSoonAfterReport
  BY DEF ThrottleInv
<1> QED
  BY <1>1, ThrottleInit, ThrottleStep, PTL DEF HandlerSpec

\* Throttled: reports of one kind begin a period apart, although the time of
\* the last is noted only when it is over.
THEOREM PeriodKept == HandlerSpec => Throttled
<1> DEFINE Apart == \A t \in Thread :
                       event_mutex' = t /\ event_mutex # t =>
                           reported'[handling[t]] >= reported[handling[t]] + event_period
<1>1. ASSUME ThrottleInv, [HandlerNext]_handler_vars
      PROVE  Apart
  <2> SUFFICES ASSUME NEW t \in Thread, event_mutex' = t, event_mutex # t
               PROVE  reported'[handling[t]] >= reported[handling[t]] + event_period
    OBVIOUS
  <2>1. begin_report(t)
    BY <1>1, HandlerAssumption
    DEF HandlerNext, handler_vars, handle, begin_report, do_not_report, end_report, tick,
        ThrottleInv, HandlerTypeOK
  <2>2. handling[t] \in Activity /\ event_mutex = NoThread
    BY <1>1, <2>1 DEF begin_report, may_lock, ThrottleInv, HandlerTypeOK
  <2>3. reported[handling[t]] <= last[handling[t]]
    BY <1>1, <2>2 DEF ThrottleInv, ClockInv, Reporting
  <2> QED
    BY <1>1, <2>1, <2>2, <2>3, HandlerAssumption
    DEF begin_report, last_of, ThrottleInv, HandlerTypeOK, PastOrTime, Time, Activity
<1> HIDE DEF Apart
<1>2. ThrottleInv /\ [HandlerNext]_handler_vars => [Apart]_handler_vars
  BY <1>1
<1>3. HandlerSpec => [][Apart]_handler_vars
  BY <1>2, ThrottleInit, ThrottleStep, PTL DEF HandlerSpec
<1> QED
  BY <1>3 DEF Throttled, Apart
================================================================================
