-------------------------- MODULE RuntimeHostProofs --------------------------
(***************************************************************************)
(* Proofs about RuntimeHost, for any set of paths, extensions, names and   *)
(* manifests: who may own what, and what a reload leaves behind.           *)
(***************************************************************************)
EXTENDS RuntimeHost, TLAPS

\* The capabilities of a manifest cover what it lists.
Covers(m) == /\ \A item \in m.items : Needs(item) \in m.capabilities
             /\ m.hooks # {} => "event_hook_register" \in m.capabilities

ManifestsCovered == \A n \in DOMAIN loaded : Covers(loaded[n].manifest)

\* The extensions ReloadIsFresh speaks of have the manifest in their file.
Fresh(n) == LET m == files[loaded[n].path]
            IN loaded[n].path \notin touched /\ m # Unusable /\ m.name = n
                 => loaded[n].manifest = m

\* An extension still to be reloaded has the path it will be reloaded from,
\* unless another file that took its name was loaded first.
ReloadProgress ==
  /\ DOMAIN todo # {} => result = "none"
  /\ \A n \in DOMAIN todo : n \in DOMAIN loaded /\ (loaded[n].path = todo[n] \/ Fresh(n))
  /\ DOMAIN todo # {} \/ result = "ok" =>
       \A n \in DOMAIN loaded \ DOMAIN todo : Fresh(n)

IInv == TypeOK /\ OwnersEntitled /\ ManifestsInstalled /\ ManifestsCovered

----------------------------------------------------------------------------
(* Installing a manifest that was accepted *)

\* Installing an accepted manifest keeps the owners entitled and every loaded manifest
\* as it was installed (register_tool, register_command and loaded.insert).
LEMMA InstallStep ==
  ASSUME IInv, NEW p \in Path, NEW m \in Manifests, Acceptable(m), Install(p, m),
         UNCHANGED files, todo' = todo \/ (DOMAIN todo' \subseteq DOMAIN todo
                                           /\ \A n \in DOMAIN todo' : todo'[n] = todo[n]),
         result' \in {"none", "ok", "err"}, touched' = touched
  PROVE  IInv'
<1>1. /\ m \in Manifest /\ m # Unusable /\ m.name \in Name
      /\ m.items \subseteq Item /\ m.hooks \subseteq Hook
  BY ManifestsValid DEF Manifest
<1>2. /\ loaded' = [n \in DOMAIN loaded \cup {m.name} |->
                      IF n = m.name THEN [path |-> p, manifest |-> m] ELSE loaded[n]]
      /\ owner' = [item \in {i \in DOMAIN owner : owner[i] # m.name} \cup m.items |->
                     IF item \in m.items THEN m.name ELSE owner[item]]
      /\ hooks' = [x \in Name \X Hook |->
                     IF x[1] # m.name THEN hooks[x] ELSE IF x[2] \in m.hooks THEN 1 ELSE 0]
  BY DEF Install, With
<1>3. /\ Covers(m)
      /\ \A item \in m.items : item \in DOMAIN owner => owner[item] = m.name
  BY DEF Acceptable, Covers
<1>4. \A n \in DOMAIN loaded' : IF n = m.name THEN loaded'[n] = [path |-> p, manifest |-> m]
                                ELSE n \in DOMAIN loaded /\ loaded'[n] = loaded[n]
  BY <1>2
<1>5. \A n \in Name, h \in Hook :
        hooks'[<<n, h>>] = IF n # m.name THEN hooks[<<n, h>>]
                           ELSE IF h \in m.hooks THEN 1 ELSE 0
  BY <1>2
<1>6. TypeOK'
  <2>1. DOMAIN loaded' \subseteq Name
    BY <1>1, <1>2 DEF IInv, TypeOK
  <2>2. \A n \in DOMAIN loaded' :
          loaded'[n] \in [path : Path, manifest : Manifests] /\ loaded'[n].manifest.name = n
    BY <1>4 DEF IInv, TypeOK
  <2>3. DOMAIN owner' \subseteq Item /\ \A item \in DOMAIN owner' : owner'[item] \in Name
    BY <1>1, <1>2 DEF IInv, TypeOK
  <2>4. hooks' \in [Name \X Hook -> 0..MaxHooks]
    <3>1. \A x \in Name \X Hook : hooks[x] \in 0..MaxHooks
      BY DEF IInv, TypeOK
    <3>2. 0 \in 0..MaxHooks /\ 1 \in 0..MaxHooks
      BY MaxHooksPositive
    <3> QED BY <1>2, <3>1, <3>2
  <2> QED BY <2>1, <2>2, <2>3, <2>4 DEF IInv, TypeOK
<1>7. OwnersEntitled'
  <2>1. ASSUME NEW item \in DOMAIN owner'
        PROVE  /\ owner'[item] \in DOMAIN loaded'
               /\ Needs(item) \in loaded'[owner'[item]].manifest.capabilities
    <3>1. CASE item \in m.items
      <4>1. owner'[item] = m.name /\ loaded'[m.name].manifest = m
        BY <1>2, <3>1
      <4> QED BY <1>2, <1>3, <3>1, <4>1 DEF Covers
    <3>2. CASE item \notin m.items
      <4>1. item \in DOMAIN owner /\ owner'[item] = owner[item] /\ owner[item] # m.name
        BY <1>2, <3>2
      <4>2. Entitled(owner[item], Needs(item))
        BY <4>1 DEF IInv, OwnersEntitled
      <4> QED BY <1>2, <4>1, <4>2 DEF Entitled
    <3> QED BY <3>1, <3>2
  <2>2. ASSUME NEW n \in Name, NEW h \in Hook, hooks'[<<n, h>>] > 0
        PROVE  n \in DOMAIN loaded' /\ "event_hook_register" \in loaded'[n].manifest.capabilities
    <3>1. CASE n = m.name
      <4>1. h \in m.hooks
        BY <1>5, <2>2, <3>1
      <4>2. loaded'[n].manifest = m /\ n \in DOMAIN loaded'
        BY <1>2, <3>1
      <4> QED BY <1>3, <4>1, <4>2 DEF Covers
    <3>2. CASE n # m.name
      <4>1. Entitled(n, "event_hook_register")
        BY <1>5, <2>2, <3>2 DEF IInv, OwnersEntitled
      <4> QED BY <1>2, <3>2, <4>1 DEF Entitled
    <3> QED BY <3>1, <3>2
  <2> QED BY <2>1, <2>2 DEF OwnersEntitled, Entitled
<1>8. ManifestsInstalled'
  <2> SUFFICES ASSUME NEW n \in DOMAIN loaded'
               PROVE  /\ \A item \in loaded'[n].manifest.items :
                           item \in DOMAIN owner' /\ owner'[item] = n
                      /\ \A h \in loaded'[n].manifest.hooks : hooks'[<<n, h>>] > 0
    BY DEF ManifestsInstalled
  <2>1. CASE n = m.name
    <3>1. loaded'[n].manifest = m
      BY <1>4, <2>1
    <3>2. \A h \in m.hooks : hooks'[<<n, h>>] = 1
      BY <1>1, <1>5, <2>1
    <3>3. \A item \in m.items : item \in DOMAIN owner' /\ owner'[item] = n
      BY <1>2, <2>1
    <3>4. \A h \in m.hooks : hooks'[<<n, h>>] > 0
      BY <3>2
    <3> QED BY <3>1, <3>3, <3>4
  <2>2. CASE n # m.name
    <3>1. n \in DOMAIN loaded /\ loaded'[n] = loaded[n] /\ n \in Name
      BY <1>4, <2>2 DEF IInv, TypeOK
    <3>2. \A item \in loaded[n].manifest.items : item \in DOMAIN owner /\ owner[item] = n
      BY <3>1 DEF IInv, ManifestsInstalled
    <3>3. \A item \in loaded[n].manifest.items : item \notin m.items
      BY <1>3, <2>2, <3>2
    <3>4. \A h \in loaded[n].manifest.hooks : h \in Hook /\ hooks[<<n, h>>] > 0
      BY <3>1, ManifestsValid DEF IInv, TypeOK, ManifestsInstalled, Manifest
    <3>5. \A item \in loaded[n].manifest.items : item \in DOMAIN owner' /\ owner'[item] = n
      <4> TAKE item \in loaded[n].manifest.items
      <4>1. item \in DOMAIN owner /\ owner[item] = n /\ item \notin m.items
        BY <3>2, <3>3
      <4> QED BY <1>2, <2>2, <4>1
    <3>6. \A h \in loaded[n].manifest.hooks : hooks'[<<n, h>>] > 0
      BY <1>5, <2>2, <3>1, <3>4
    <3> QED BY <3>1, <3>5, <3>6
  <2> QED BY <2>1, <2>2
<1>9. ManifestsCovered'
  BY <1>3, <1>4 DEF IInv, ManifestsCovered, Covers
<1> QED BY <1>6, <1>7, <1>8, <1>9 DEF IInv

----------------------------------------------------------------------------
(* The inductive invariant *)

\* Nothing is loaded at the start.
LEMMA InitIInv == Init => IInv
<1> SUFFICES ASSUME Init PROVE IInv
  OBVIOUS
<1>1. /\ DOMAIN loaded = {} /\ DOMAIN owner = {} /\ DOMAIN todo = {}
      /\ files \in [Path -> Manifests \cup {Unusable}]
      /\ result = "none" /\ touched = {}
  BY DEF Init, Nothing
<1>2. hooks \in [Name \X Hook -> 0..MaxHooks] /\ \A x \in Name \X Hook : hooks[x] = 0
  BY MaxHooksPositive DEF Init
<1>3. TypeOK
  BY <1>1, <1>2 DEF TypeOK
<1>4. OwnersEntitled
  BY <1>1, <1>2 DEF OwnersEntitled
<1>5. ManifestsInstalled /\ ManifestsCovered
  BY <1>1 DEF ManifestsInstalled, ManifestsCovered
<1> QED BY <1>3, <1>4, <1>5 DEF IInv

\* A file that was accepted holds a manifest.
LEMMA AcceptedFile ==
  ASSUME TypeOK, NEW p \in Path, Acceptable(files[p])
  PROVE  files[p] \in Manifests
BY DEF TypeOK, Acceptable

\* No load, reload or unload, and no change of a file, breaks it.
LEMMA NextIInv == IInv /\ [Next]_vars => IInv'
<1> SUFFICES ASSUME IInv, [Next]_vars PROVE IInv'
  OBVIOUS
<1>1. ASSUME UNCHANGED host, files' \in [Path -> Manifests \cup {Unusable}],
             DOMAIN todo' \subseteq Name, \A n \in DOMAIN todo' : todo'[n] \in Path,
             result' \in {"none", "ok", "err"}, touched' \subseteq Path
      PROVE  IInv'
  <2>1. TypeOK'
    BY <1>1 DEF IInv, TypeOK, host
  <2>2. OwnersEntitled' /\ ManifestsInstalled' /\ ManifestsCovered'
    BY <1>1 DEF IInv, OwnersEntitled, Entitled, ManifestsInstalled, ManifestsCovered, host
  <2> QED BY <2>1, <2>2 DEF IInv
<1>2. ASSUME NEW p \in Path, LoadExtensionManifest(p)
      PROVE  IInv'
  <2>1. files[p] \in Manifests
    BY <1>2, AcceptedFile DEF IInv, LoadExtensionManifest
  <2>2. /\ Acceptable(files[p]) /\ Install(p, files[p]) /\ UNCHANGED files
        /\ todo' = todo /\ result' \in {"none", "ok", "err"} /\ touched' = touched
    BY <1>2 DEF LoadExtensionManifest, reload, IInv, TypeOK
  <2> QED BY <2>1, <2>2, InstallStep
<1>3. ASSUME NEW p \in Path, NEW m \in Manifests \cup {Unusable}, WriteManifest(p, m)
      PROVE  IInv'
  BY <1>1, <1>3 DEF WriteManifest, IInv, TypeOK, reload
<1>4. CASE StartReload
  <2>1. \A n \in DOMAIN loaded : loaded[n].path \in Path
    BY DEF IInv, TypeOK
  <2> QED BY <1>1, <1>4, <2>1 DEF StartReload, IInv, TypeOK
<1>5. ASSUME NEW n \in Name, ReloadOne(n)
      PROVE  IInv'
  <2>1. n \in DOMAIN todo /\ todo[n] \in Path
    BY <1>5 DEF ReloadOne, IInv, TypeOK
  <2>2. files[todo[n]] \in Manifests
    BY <1>5, <2>1, AcceptedFile DEF IInv, ReloadOne
  <2>3. /\ Acceptable(files[todo[n]]) /\ Install(todo[n], files[todo[n]]) /\ UNCHANGED files
        /\ DOMAIN todo' \subseteq DOMAIN todo /\ \A k \in DOMAIN todo' : todo'[k] = todo[k]
        /\ result' \in {"none", "ok", "err"} /\ touched' = touched
    BY <1>5 DEF ReloadOne, Without
  <2> QED BY <2>1, <2>2, <2>3, InstallStep
<1>6. ASSUME NEW n \in Name, ReloadFails(n)
      PROVE  IInv'
  BY <1>1, <1>6 DEF ReloadFails, Nothing, IInv, TypeOK
<1>7. ASSUME NEW n \in Name, NEW item \in Item, Register(n, item)
      PROVE  IInv'
  <2>1. /\ Entitled(n, Needs(item)) /\ item \notin DOMAIN owner
        /\ owner' = [i \in DOMAIN owner \cup {item} |-> IF i = item THEN n ELSE owner[i]]
        /\ UNCHANGED <<files, loaded, hooks, todo, result, touched>>
    BY <1>7 DEF Register, With, reload
  <2>2. TypeOK'
    BY <2>1 DEF IInv, TypeOK
  <2>3. OwnersEntitled'
    BY <2>1 DEF IInv, OwnersEntitled, Entitled
  <2>4. ManifestsInstalled' /\ ManifestsCovered'
    BY <2>1 DEF IInv, ManifestsInstalled, ManifestsCovered
  <2> QED BY <2>2, <2>3, <2>4 DEF IInv
<1>8. ASSUME NEW n \in Name, NEW h \in Hook, RegisterEventHook(n, h)
      PROVE  IInv'
  <2>1. /\ Entitled(n, "event_hook_register") /\ hooks[<<n, h>>] < MaxHooks
        /\ hooks' = [hooks EXCEPT ![<<n, h>>] = hooks[<<n, h>>] + 1]
        /\ UNCHANGED <<files, loaded, owner, todo, result, touched>>
    BY <1>8 DEF RegisterEventHook, reload
  <2>2. \A k \in Name, g \in Hook :
          hooks'[<<k, g>>] = IF k = n /\ g = h THEN hooks[<<n, h>>] + 1 ELSE hooks[<<k, g>>]
    BY <2>1 DEF IInv, TypeOK
  <2>3. hooks[<<n, h>>] + 1 \in 0..MaxHooks
    BY <2>1, MaxHooksPositive DEF IInv, TypeOK
  <2>4. TypeOK'
    BY <2>1, <2>3 DEF IInv, TypeOK
  <2>5. OwnersEntitled'
    BY <2>1, <2>2 DEF IInv, OwnersEntitled, Entitled
  <2>6. \A k \in Name, g \in Hook : hooks[<<k, g>>] > 0 => hooks'[<<k, g>>] > 0
    BY <2>2, <2>3 DEF IInv, TypeOK
  <2>7. \A k \in DOMAIN loaded : k \in Name /\ loaded[k].manifest.hooks \subseteq Hook
    BY ManifestsValid DEF IInv, TypeOK, Manifest
  <2>8. ManifestsInstalled' /\ ManifestsCovered'
    BY <2>1, <2>6, <2>7 DEF IInv, ManifestsInstalled, ManifestsCovered
  <2> QED BY <2>4, <2>5, <2>8 DEF IInv
<1>9. CASE UNCHANGED vars
  BY <1>1, <1>9 DEF vars, reload, IInv, TypeOK
<1> QED BY <1>2, <1>3, <1>4, <1>5, <1>6, <1>7, <1>8, <1>9 DEF Next

\* The inductive invariant holds in every reachable state.
THEOREM Invariance == Spec => []IInv
BY InitIInv, NextIInv, PTL DEF Spec

\* Every variable keeps its type, however many loads, reloads, registrations and
\* writes of manifests there were.
THEOREM TypeCorrect == Spec => []TypeOK
<1>1. IInv => TypeOK
  BY DEF IInv
<1> QED BY <1>1, Invariance, PTL

\* What is registered belongs to a loaded extension that declares the capability.
THEOREM OwnersAlwaysEntitled == Spec => []OwnersEntitled
<1>1. IInv => OwnersEntitled
  BY DEF IInv
<1> QED BY <1>1, Invariance, PTL

\* Loading is all or nothing: a loaded extension has all that its manifest lists.
THEOREM ManifestsAlwaysInstalled == Spec => []ManifestsInstalled
<1>1. IInv => ManifestsInstalled
  BY DEF IInv
<1> QED BY <1>1, Invariance, PTL

\* What is loaded would be accepted again, so a reload of unchanged files succeeds.
THEOREM AlwaysReloadable == Spec => []Reloadable
<1>1. IInv => Reloadable
  <2> SUFFICES ASSUME IInv, NEW n \in DOMAIN loaded
               PROVE  Acceptable(loaded[n].manifest)
    BY DEF Reloadable
  <2>1. loaded[n].manifest # Unusable /\ loaded[n].manifest.name = n
    BY ManifestsValid DEF IInv, TypeOK
  <2>2. Covers(loaded[n].manifest)
    BY DEF IInv, ManifestsCovered
  <2>3. \A item \in loaded[n].manifest.items : owner[item] = n
    BY DEF IInv, ManifestsInstalled
  <2> QED BY <2>1, <2>2, <2>3 DEF Acceptable, Covers
<1> QED BY <1>1, Invariance, PTL

\* A tool or command is never passed from one extension to another.
THEOREM OwnersNeverChange == Spec => NothingChangesHands
<1>1. ASSUME IInv, [Next]_vars
      PROVE  [\A item \in DOMAIN owner \cap DOMAIN owner' : owner'[item] = owner[item]]_vars
  <2> SUFFICES ASSUME NEW item \in DOMAIN owner \cap DOMAIN owner'
               PROVE  owner'[item] = owner[item]
    OBVIOUS
  <2>1. ASSUME NEW p, NEW m, Acceptable(m), Install(p, m)
        PROVE  owner'[item] = owner[item]
    BY <2>1 DEF Acceptable, Install
  <2>2. CASE owner' = owner
    BY <2>2
  <2>3. ASSUME NEW n \in Name, NEW i \in Item, Register(n, i)
        PROVE  owner'[item] = owner[item]
    BY <2>3 DEF Register, With
  <2> QED BY <1>1, <2>1, <2>2, <2>3
         DEF Next, vars, host, LoadExtensionManifest, WriteManifest, StartReload, ReloadOne,
             ReloadFails, RegisterEventHook
<1> QED BY <1>1, Invariance, PTL DEF Spec, NothingChangesHands

----------------------------------------------------------------------------
(* What a reload leaves behind *)

\* Installing the manifest in file p makes its extension fresh and leaves the
\* others as they were.
LEMMA InstallIsFresh ==
  ASSUME TypeOK, NEW p \in Path, NEW name, files[p].name = name,
         Install(p, files[p]), UNCHANGED <<files, touched>>
  PROVE  /\ DOMAIN loaded' = DOMAIN loaded \cup {name}
         /\ Fresh(name)'
         /\ \A n \in DOMAIN loaded \ {name} : loaded'[n] = loaded[n]
         /\ \A n \in DOMAIN loaded : Fresh(n) => Fresh(n)'
<1>1. loaded' = [n \in DOMAIN loaded \cup {name} |->
                   IF n = name THEN [path |-> p, manifest |-> files[p]] ELSE loaded[n]]
  BY DEF Install, With
<1>2. loaded'[name] = [path |-> p, manifest |-> files[p]]
  BY <1>1
<1>3. \A n \in DOMAIN loaded \ {name} : loaded'[n] = loaded[n]
  BY <1>1
<1>4. Fresh(name)'
  BY <1>2 DEF Fresh
<1>5. \A n \in DOMAIN loaded : Fresh(n) => Fresh(n)'
  BY <1>3, <1>4 DEF Fresh
<1> QED BY <1>1, <1>3, <1>4, <1>5

\* No reload is under way at the start.
LEMMA InitProgress == Init => ReloadProgress
BY DEF Init, Nothing, ReloadProgress

\* Each step of a reload leaves what it has done fresh, and the rest still to do.
LEMMA NextProgress == IInv /\ ReloadProgress /\ [Next]_vars => ReloadProgress'
<1> SUFFICES ASSUME IInv, ReloadProgress, [Next]_vars PROVE ReloadProgress'
  OBVIOUS
<1>1. TypeOK
  BY DEF IInv
<1>2. ASSUME NEW p \in Path, LoadExtensionManifest(p)
      PROVE  ReloadProgress'
  <2>1. /\ DOMAIN todo = {} /\ Install(p, files[p])
        /\ UNCHANGED <<files, todo, result, touched>>
    BY <1>2 DEF LoadExtensionManifest, Idle, reload
  <2>2. PICK name : files[p].name = name
    OBVIOUS
  <2>3. /\ DOMAIN loaded' = DOMAIN loaded \cup {name}
        /\ Fresh(name)'
        /\ \A n \in DOMAIN loaded : Fresh(n) => Fresh(n)'
    BY <1>1, <2>1, <2>2, InstallIsFresh
  <2> QED BY <2>1, <2>3 DEF ReloadProgress
<1>3. ASSUME NEW p \in Path, NEW m \in Manifests \cup {Unusable}, WriteManifest(p, m)
      PROVE  ReloadProgress'
  <2>1. /\ files' = [files EXCEPT ![p] = m] /\ touched' = touched \cup {p}
        /\ UNCHANGED <<loaded, todo, result>>
    BY <1>3 DEF WriteManifest, host, reload
  <2>2. \A n \in DOMAIN loaded : Fresh(n) => Fresh(n)'
    BY <1>1, <2>1 DEF Fresh, TypeOK
  <2> QED BY <2>1, <2>2 DEF ReloadProgress
<1>4. CASE StartReload
  <2>1. /\ DOMAIN todo' = DOMAIN loaded /\ \A n \in DOMAIN loaded : todo'[n] = loaded[n].path
        /\ result' = IF DOMAIN loaded = {} THEN "ok" ELSE "none"
        /\ loaded' = loaded
    BY <1>4 DEF StartReload, host
  <2> QED BY <2>1 DEF ReloadProgress
<1>5. ASSUME NEW n \in Name, ReloadOne(n)
      PROVE  ReloadProgress'
  <2>1. PICK p \in Path :
          /\ n \in DOMAIN todo /\ todo[n] = p
          /\ Acceptable(files[p]) /\ Install(p, files[p])
          /\ DOMAIN todo' = DOMAIN todo \ {n} /\ \A k \in DOMAIN todo' : todo'[k] = todo[k]
          /\ result' = IF DOMAIN todo' = {} THEN "ok" ELSE "none"
          /\ UNCHANGED <<files, touched>>
    BY <1>1, <1>5 DEF ReloadOne, Without, TypeOK
  <2>2. PICK name : files[p].name = name
    OBVIOUS
  <2>3. /\ DOMAIN loaded' = DOMAIN loaded \cup {name}
        /\ Fresh(name)'
        /\ \A k \in DOMAIN loaded \ {name} : loaded'[k] = loaded[k]
        /\ \A k \in DOMAIN loaded : Fresh(k) => Fresh(k)'
    BY <1>1, <2>1, <2>2, InstallIsFresh
  <2>4. Fresh(n)'
    <3>1. CASE name = n
      BY <2>3, <3>1
    <3>2. CASE name # n
      <4>1. n \in DOMAIN loaded /\ (loaded[n].path = p \/ Fresh(n))
        BY <2>1 DEF ReloadProgress
      <4>2. loaded'[n] = loaded[n]
        BY <2>3, <3>2, <4>1
      <4> QED BY <2>1, <2>2, <2>3, <3>2, <4>1, <4>2 DEF Fresh
    <3> QED BY <3>1, <3>2
  <2>5. ASSUME NEW k \in DOMAIN todo'
        PROVE  k \in DOMAIN loaded' /\ (loaded'[k].path = todo'[k] \/ Fresh(k)')
    <3>1. k \in DOMAIN loaded /\ (loaded[k].path = todo[k] \/ Fresh(k)) /\ todo'[k] = todo[k]
      BY <2>1 DEF ReloadProgress
    <3> QED BY <2>3, <3>1
  <2>6. ASSUME NEW k \in DOMAIN loaded' \ DOMAIN todo'
        PROVE  Fresh(k)'
    <3>1. CASE k = n \/ k = name
      BY <2>3, <2>4, <3>1
    <3>2. CASE k # n /\ k # name
      <4>1. k \in DOMAIN loaded \ DOMAIN todo
        BY <2>1, <2>3, <3>2
      <4> QED BY <2>1, <2>3, <4>1 DEF ReloadProgress
    <3> QED BY <3>1, <3>2
  <2> QED BY <2>1, <2>5, <2>6 DEF ReloadProgress
<1>6. ASSUME NEW n \in Name, ReloadFails(n)
      PROVE  ReloadProgress'
  BY <1>6 DEF ReloadFails, Nothing, ReloadProgress
<1>7. CASE UNCHANGED <<files, loaded, todo, result, touched>>
  BY <1>7 DEF ReloadProgress, Fresh
<1> QED BY <1>2, <1>3, <1>4, <1>5, <1>6, <1>7
       DEF Next, vars, host, reload, Register, RegisterEventHook

\* After a reload that returned Ok, an extension has the manifest that is in its
\* file, unless the file was written since or has been given to another name.
THEOREM ReloadLeavesFresh == Spec => []ReloadIsFresh
<1>1. Init => IInv /\ ReloadProgress
  BY InitIInv, InitProgress
<1>2. IInv /\ ReloadProgress /\ [Next]_vars => (IInv /\ ReloadProgress)'
  BY NextIInv, NextProgress
<1>3. IInv /\ ReloadProgress => ReloadIsFresh
  BY DEF ReloadProgress, ReloadIsFresh, Fresh
<1> QED BY <1>1, <1>2, <1>3, PTL DEF Spec
=============================================================================
