-------------------------- MODULE DBusWatchesProofs --------------------------
(***************************************************************************)
(* Whatever libdbus registers, toggles and removes, for any connections,   *)
(* watches and timeouts: epoll waits for what is enabled.                  *)
(***************************************************************************)
EXTENDS DBusWatches, TLAPS

\* What the watches of ws that are in en wait for on descriptor c.
wanted_on(c, ws, en) == {w[2] : w \in ws \cap en \cap ({c} \X {"in", "out"})}

\* EpollMatches with the types that its preservation needs.
IInv ==
    /\ watches \subseteq Watch
    /\ timeouts \subseteq Timeout
    /\ epoll = [fd \in DOMAIN epoll |-> epoll[fd]]
    /\ EpollMatches

\* The loops over the watches in epoll_events_for_watch_fd() collect the
\* events of the enabled watches of the descriptor.
LEMMA EventsAreWanted ==
    ASSUME NEW c \in Connection, NEW ws \in SUBSET Watch, NEW en
    PROVE  epoll_events_for_watch_fd(c, ws, en) = wanted_on(c, ws, en)
<1>1. {v \in ws \cap en : on(v, c)} = ws \cap en \cap ({c} \X {"in", "out"})
  <2>1. \A v \in Connection \X {"in", "out"} : v[1] = c <=> v \in {c} \X {"in", "out"}
    OBVIOUS
  <2> QED
    BY <2>1, DescriptorAssumption DEF on
<1> QED
  BY <1>1 DEF epoll_events_for_watch_fd, wanted_on

\* The watches of other descriptors do not matter.
LEMMA OtherWatches ==
    ASSUME NEW c \in Connection, NEW w \in Watch, c # w[1],
           NEW ws \in SUBSET Watch, NEW en, NEW ws2 \in SUBSET Watch, NEW en2,
           \A v \in Watch : v # w => (v \in ws \cap en <=> v \in ws2 \cap en2)
    PROVE  wanted_on(c, ws, en) = wanted_on(c, ws2, en2)
<1>1. w \notin {c} \X {"in", "out"}
  BY DescriptorAssumption
<1>2. ws \cap en \cap ({c} \X {"in", "out"}) = ws2 \cap en2 \cap ({c} \X {"in", "out"})
  BY <1>1
<1> QED
  BY <1>2 DEF wanted_on

LEMMA MatchesDef ==
    EpollMatches <=>
      /\ DOMAIN epoll = {w[1] : w \in watches} \cup timeouts
      /\ \A c \in DOMAIN epoll \cap Connection : epoll[c] = wanted_on(c, watches, enabled)
      /\ armed = timeouts \cap enabled
BY DEF EpollMatches, wanted_on

LEMMA WatchIsPair ==
    ASSUME NEW w \in Watch
    PROVE  w[1] \in Connection /\ w[1] \notin Timeout /\ w \notin Timeout
BY DescriptorAssumption

-----------------------------------------------------------------------------
\* One lemma per callback of libdbus.

LEMMA AddWatchKeeps ==
    ASSUME IInv, NEW w \in Watch, NEW enable \in BOOLEAN, add_watch(w, enable)
    PROVE  IInv'
<1> DEFINE c == w[1]
           en == enabled'
<1>1. /\ watches' = watches \cup {w}
      /\ en = enabled \cup IF enable THEN {w} ELSE {}
      /\ epoll' = [d \in DOMAIN epoll \cup {c} |->
                     IF d = c THEN wanted_on(c, watches', en) ELSE epoll[d]]
      /\ watches' \subseteq Watch
      /\ UNCHANGED <<timeouts, armed>>
  BY EventsAreWanted, WatchIsPair DEF add_watch, add_or_modify, IInv
<1>2. DOMAIN epoll' = {v[1] : v \in watches'} \cup timeouts'
  BY <1>1, MatchesDef DEF IInv
<1>3. ASSUME NEW d \in DOMAIN epoll' \cap Connection
      PROVE  epoll'[d] = wanted_on(d, watches', en)
  <2>1. CASE d = c
    BY <2>1, <1>1
  <2>2. CASE d # c
    <3>1. d \in DOMAIN epoll \cap Connection /\ epoll'[d] = epoll[d]
      BY <2>2, <1>1
    <3>2. wanted_on(d, watches, enabled) = wanted_on(d, watches', en)
      <4>1. \A v \in Watch : v # w => (v \in watches \cap enabled <=> v \in watches' \cap en)
        BY <1>1
      <4> HIDE DEF en
      <4> QED
        BY <4>1, <2>2, <1>1, OtherWatches DEF IInv
    <3> QED
      BY <3>1, <3>2, MatchesDef DEF IInv
  <2> QED
    BY <2>1, <2>2
<1>4. armed' = timeouts' \cap en
  BY <1>1, WatchIsPair, MatchesDef DEF IInv
<1>5. EpollMatches'
  BY <1>2, <1>3, <1>4 DEF EpollMatches, wanted_on
<1> QED
  BY <1>1, <1>5 DEF IInv

LEMMA RemoveWatchKeeps ==
    ASSUME IInv, NEW w \in Watch, remove_watch(w)
    PROVE  IInv'
<1> DEFINE c == w[1]
<1>1. /\ w \in watches
      /\ watches' = watches \ {w}
      /\ enabled' = enabled \ {w}
      /\ UNCHANGED <<timeouts, armed>>
      /\ watches' \subseteq Watch
  BY DEF remove_watch, IInv
<1>2. \A d \in Connection \ {c} :
         wanted_on(d, watches, enabled) = wanted_on(d, watches', enabled')
  <2>1. \A v \in Watch : v # w => (v \in watches \cap enabled <=> v \in watches' \cap enabled')
    BY <1>1
  <2> QED
    BY <2>1, <1>1, OtherWatches DEF IInv
<1>3. wanted_on(c, watches', enabled) = wanted_on(c, watches', enabled')
  BY <1>1 DEF wanted_on
<1>4. c \in DOMAIN epoll /\ c \in Connection /\ c \notin timeouts
  BY <1>1, WatchIsPair, MatchesDef DEF IInv
<1>5. armed' = timeouts' \cap enabled'
  BY <1>1, WatchIsPair, MatchesDef DEF IInv
<1>6. CASE is_watched(c, watches')
  <2>1. epoll' = [d \in DOMAIN epoll |-> IF d = c THEN wanted_on(c, watches', enabled') ELSE epoll[d]]
    BY <1>6, <1>1, <1>3, <1>4, EventsAreWanted DEF remove_watch, after_remove, modify
  <2>2. \E v \in watches' : v[1] = c
    BY <1>6 DEF is_watched, on
  <2>3. DOMAIN epoll' = {v[1] : v \in watches'} \cup timeouts'
    BY <2>1, <2>2, <1>1, MatchesDef DEF IInv
  <2>4. \A d \in DOMAIN epoll' \cap Connection : epoll'[d] = wanted_on(d, watches', enabled')
    BY <2>1, <1>2, MatchesDef DEF IInv
  <2>5. EpollMatches'
    BY <2>3, <2>4, <1>5 DEF EpollMatches, wanted_on
  <2> QED
    BY <2>1, <2>5, <1>1 DEF IInv
<1>7. CASE ~ is_watched(c, watches')
  <2>1. epoll' = [d \in DOMAIN epoll \ {c} |-> epoll[d]]
    BY <1>7, <1>1 DEF remove_watch, after_remove, delete
  <2>2. \A v \in watches' : v[1] # c
    BY <1>7 DEF is_watched, on
  <2>3. DOMAIN epoll' = {v[1] : v \in watches'} \cup timeouts'
    BY <2>1, <2>2, <1>1, <1>4, MatchesDef DEF IInv
  <2>4. \A d \in DOMAIN epoll' \cap Connection : epoll'[d] = wanted_on(d, watches', enabled')
    BY <2>1, <1>2, MatchesDef DEF IInv
  <2>5. EpollMatches'
    BY <2>3, <2>4, <1>5 DEF EpollMatches, wanted_on
  <2> QED
    BY <2>1, <2>5, <1>1 DEF IInv
<1> QED
  BY <1>6, <1>7

LEMMA ToggleWatchKeeps ==
    ASSUME IInv, NEW w \in Watch, toggle_watch(w)
    PROVE  IInv'
<1> DEFINE c == w[1]
<1>1. /\ UNCHANGED <<watches, timeouts, armed>>
      /\ w \in watches
      /\ \A x : x # w => (x \in enabled <=> x \in enabled')
      /\ watches \subseteq Watch
  BY DEF toggle_watch, IInv
<1>2. c \in Connection
  BY WatchIsPair
<1>3. epoll' = [d \in DOMAIN epoll |-> IF d = c THEN wanted_on(c, watches', enabled') ELSE epoll[d]]
  BY <1>1, <1>2, EventsAreWanted DEF toggle_watch, modify
<1>4. \A d \in Connection \ {c} :
         wanted_on(d, watches, enabled) = wanted_on(d, watches', enabled')
  BY <1>1, OtherWatches
<1>5. DOMAIN epoll' = {v[1] : v \in watches'} \cup timeouts'
  BY <1>1, <1>3, MatchesDef DEF IInv
<1>6. \A d \in DOMAIN epoll' \cap Connection : epoll'[d] = wanted_on(d, watches', enabled')
  BY <1>3, <1>4, MatchesDef DEF IInv
<1>7. armed' = timeouts' \cap enabled'
  BY <1>1, WatchIsPair, MatchesDef DEF IInv
<1>8. EpollMatches'
  BY <1>5, <1>6, <1>7 DEF EpollMatches, wanted_on
<1> QED
  BY <1>1, <1>3, <1>8 DEF IInv

\* Timers are in the epoll set under descriptors of their own, so that no
\* connection is concerned.
LEMMA TimeoutsKeep ==
    ASSUME IInv, NEW t \in Timeout,
           \/ \E enable \in BOOLEAN : add_timeout(t, enable)
           \/ remove_timeout(t)
           \/ toggle_timeout(t)
    PROVE  IInv'
<1> DEFINE Done == /\ UNCHANGED watches
                   /\ timeouts' \subseteq Timeout
                   /\ \A x : x # t => (x \in enabled <=> x \in enabled')
                   /\ epoll' = [fd \in DOMAIN epoll' |-> epoll'[fd]]
                   /\ DOMAIN epoll' = {v[1] : v \in watches} \cup timeouts'
                   /\ \A d \in DOMAIN epoll' : d # t => d \in DOMAIN epoll /\ epoll'[d] = epoll[d]
                   /\ armed' = timeouts' \cap enabled'
<1>0. /\ DOMAIN epoll = {v[1] : v \in watches} \cup timeouts
      /\ armed = timeouts \cap enabled
      /\ timeouts \subseteq Timeout
      /\ epoll = [fd \in DOMAIN epoll |-> epoll[fd]]
      /\ watches \subseteq Watch
  BY MatchesDef DEF IInv
<1>2. t \notin Connection /\ t \notin Watch
  BY DescriptorAssumption
<1>3. \A v \in watches : v[1] # t
  BY <1>2, WatchIsPair DEF IInv
<1>4. ASSUME \E enable \in BOOLEAN : add_timeout(t, enable)
      PROVE  Done
  <2>1. PICK enable \in BOOLEAN : add_timeout(t, enable)
    BY <1>4
  <2>2. /\ UNCHANGED watches
        /\ timeouts' = timeouts \cup {t}
        /\ enabled' = enabled \cup IF enable THEN {t} ELSE {}
        /\ epoll' = [d \in DOMAIN epoll \cup {t} |-> IF d = t THEN {"in"} ELSE epoll[d]]
        /\ armed' = IF t \in enabled' THEN armed \cup {t} ELSE armed \ {t}
    BY <2>1 DEF add_timeout, add_or_modify, update_timer_fd_for
  <2>3. DOMAIN epoll' = {v[1] : v \in watches} \cup timeouts'
    BY <1>0, <2>2
  <2>4. armed' = timeouts' \cap enabled'
    BY <1>0, <2>2
  <2> QED BY <1>0, <2>2, <2>3, <2>4
<1>5. ASSUME remove_timeout(t)
      PROVE  Done
  <2>1. /\ UNCHANGED watches
        /\ timeouts' = timeouts \ {t}
        /\ enabled' = enabled \ {t}
        /\ epoll' = [d \in DOMAIN epoll \ {t} |-> epoll[d]]
        /\ armed' = armed \ {t}
    BY <1>5 DEF remove_timeout, delete
  <2>2. t \notin {v[1] : v \in watches}
    BY <1>3
  <2>3. DOMAIN epoll' = {v[1] : v \in watches} \cup timeouts'
    BY <1>0, <2>1, <2>2
  <2>4. armed' = timeouts' \cap enabled'
    BY <1>0, <2>1
  <2> QED BY <1>0, <2>1, <2>3, <2>4
<1>6. ASSUME toggle_timeout(t)
      PROVE  Done
  <2>1. /\ UNCHANGED <<watches, timeouts, epoll>>
        /\ t \in timeouts
        /\ enabled' = IF t \in enabled THEN enabled \ {t} ELSE enabled \cup {t}
        /\ armed' = IF t \in enabled' THEN armed \cup {t} ELSE armed \ {t}
    BY <1>6 DEF toggle_timeout, update_timer_fd_for
  <2>2. armed' = timeouts' \cap enabled'
    BY <1>0, <2>1
  <2> QED BY <1>0, <2>1, <2>2
<1>7. Done
  BY <1>4, <1>5, <1>6
<1> HIDE DEF Done
<1>8. \A d \in DOMAIN epoll' \cap Connection :
         d \in DOMAIN epoll \cap Connection /\ epoll'[d] = epoll[d]
  BY <1>2, <1>7 DEF Done
<1>9. \A d : wanted_on(d, watches, enabled) = wanted_on(d, watches', enabled')
  <2>1. watches \cap enabled = watches' \cap enabled'
    BY <1>0, <1>2, <1>7 DEF Done
  <2> QED
    BY <2>1 DEF wanted_on
<1>10. \A d \in DOMAIN epoll' \cap Connection : epoll'[d] = wanted_on(d, watches', enabled')
  BY <1>8, <1>9, MatchesDef DEF IInv
<1>11. EpollMatches'
  BY <1>7, <1>10 DEF Done, EpollMatches, wanted_on
<1> QED
  BY <1>0, <1>7, <1>11 DEF Done, IInv

-----------------------------------------------------------------------------
\* epoll waits for what libdbus has enabled and for nothing else, whatever the
\* order of its calls of add_watch(), remove_watch() and toggle_watch() and of
\* their like for timeouts.
THEOREM EpollFollows == Spec => []EpollMatches
<1>1. Init => IInv
  BY DEF Init, IInv, EpollMatches
<1>2. IInv /\ [Next]_vars => IInv'
  <2> SUFFICES ASSUME IInv, [Next]_vars
               PROVE  IInv'
    OBVIOUS
  <2>1. CASE libdbus
    <3>1. ASSUME NEW w \in Watch, NEW enable \in BOOLEAN, add_watch(w, enable)
          PROVE  IInv'
      BY <3>1, AddWatchKeeps
    <3>2. ASSUME NEW w \in Watch, remove_watch(w)
          PROVE  IInv'
      BY <3>2, RemoveWatchKeeps
    <3>3. ASSUME NEW w \in Watch, toggle_watch(w)
          PROVE  IInv'
      BY <3>3, ToggleWatchKeeps
    <3> QED
      BY <2>1, <3>1, <3>2, <3>3, TimeoutsKeep DEF libdbus
  <2>2. CASE dbus_timeout_handle
    <3>1. remove_timeout(event.fd) /\ event.fd \in Timeout
      BY <2>2 DEF dbus_timeout_handle, remove_timeout, IInv
    <3> QED
      BY <3>1, TimeoutsKeep
  <2>3. CASE UNCHANGED registered
    BY <2>3 DEF registered, IInv, EpollMatches
  <2> QED
    BY <2>1, <2>2, <2>3
    DEF Next, Turn, vars, run_starts, dbus_watch_handle, watches_handled, end_of_turn,
        epoll_wait, woken, peer, expires
<1>3. IInv => EpollMatches
  BY DEF IInv
<1> QED
  BY <1>1, <1>2, <1>3, PTL DEF Spec
=============================================================================
