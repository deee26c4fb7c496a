----------------------------- MODULE RuntimeHost -----------------------------
(***************************************************************************)
(* The extension host of crates/pi-ext/src/lib.rs: which extensions are    *)
(* loaded, and which tools, commands and event hooks they have registered. *)
(* The manifests are files that anybody may write at any time; the host is *)
(* behind a lock, so its calls do not overlap, but reload_all reads one    *)
(* file after the other.                                                   *)
(*                                                                         *)
(* Tools and commands are handled by the same code: a registration is a    *)
(* pair of a kind and a name.  The hooks of an event are kept as the       *)
(* number of times each is registered; nothing depends on their order.     *)
(***************************************************************************)
EXTENDS Naturals, FiniteSets

CONSTANTS Path,       \* manifest files
          Name,       \* extensions
          ItemName,   \* names of tools and commands
          Hook,       \* pairs of an event and a handler
          Manifests,  \* the manifests a file may hold
          Unusable,   \* a file load_manifest refuses: missing, unreadable, invalid
          MaxHooks    \* bound: times one hook is registered

Kind == {"tool", "command"}
Item == Kind \X ItemName
Capability == {"tool_register", "command_register", "event_hook_register"}
Manifest == [name : Name, capabilities : SUBSET Capability,
             items : SUBSET Item, hooks : SUBSET Hook]

ASSUME ManifestsValid == Manifests \subseteq Manifest /\ Unusable \notin Manifests
ASSUME MaxHooksPositive == MaxHooks \in Nat \ {0}

VARIABLES
  files,    \* the manifest files
  loaded,   \* RuntimeHost.loaded, by name: the manifest and its path
  owner,    \* RuntimeHost.tools and .commands: the extension of each item
  hooks,    \* RuntimeHost.event_hooks: how often each is registered, by extension
  todo,     \* the paths reload_all has still to load, by the name they had
  result,   \* of the last reload_all
  touched   \* history: files written since the last reload_all began

host == <<loaded, owner, hooks>>
reload == <<todo, result>>
vars == <<files, host, reload, touched>>

Needs(item) == IF item[1] = "tool" THEN "tool_register" ELSE "command_register"
Without(f, x) == [y \in DOMAIN f \ {x} |-> f[y]]
With(f, x, v) == [y \in DOMAIN f \cup {x} |-> IF y = x THEN v ELSE f[y]]
Nothing == [x \in {} |-> x]

Init == /\ files \in [Path -> Manifests \cup {Unusable}]
        /\ loaded = Nothing /\ owner = Nothing
        /\ hooks = [x \in Name \X Hook |-> 0]
        /\ todo = Nothing /\ result = "none"
        /\ touched = {}

----------------------------------------------------------------------------
\* Mutation: a conflict with another extension goes unnoticed.
Acceptable_AnyOwner(m) ==
  /\ m # Unusable
  /\ \A item \in m.items : Needs(item) \in m.capabilities
  /\ m.hooks # {} => "event_hook_register" \in m.capabilities

\* The checks load_extension_manifest makes before it changes anything.
Acceptable(m) ==
  /\ m # Unusable
  /\ \A item \in m.items :
       /\ Needs(item) \in m.capabilities
       /\ item \in DOMAIN owner => owner[item] = m.name
  /\ m.hooks # {} => "event_hook_register" \in m.capabilities

\* Mutation: what the extension had registered before is not dropped.
Install_NoUnload(p, m) ==
  /\ loaded' = With(loaded, m.name, [path |-> p, manifest |-> m])
  /\ owner' = [item \in DOMAIN owner \cup m.items |->
                 IF item \in m.items THEN m.name ELSE owner[item]]
  /\ hooks' = [x \in Name \X Hook |->
                 IF x[1] = m.name /\ x[2] \in m.hooks THEN hooks[x] + 1 ELSE hooks[x]]

\* unload_extension, then the registrations the manifest lists.
Install(p, m) ==
  LET kept == {item \in DOMAIN owner : owner[item] # m.name} IN
  /\ loaded' = With(loaded, m.name, [path |-> p, manifest |-> m])
  /\ owner' = [item \in kept \cup m.items |->
                 IF item \in m.items THEN m.name ELSE owner[item]]
  /\ hooks' = [x \in Name \X Hook |->
                 IF x[1] # m.name THEN hooks[x] ELSE IF x[2] \in m.hooks THEN 1 ELSE 0]

Idle == DOMAIN todo = {}

\* A call that fails changes nothing.
LoadExtensionManifest(p) == /\ Idle
                            /\ Acceptable(files[p])
                            /\ Install(p, files[p])
                            /\ UNCHANGED <<files, reload, touched>>

----------------------------------------------------------------------------
(* reload_all: the paths of the extensions loaded, in an arbitrary order *)

StartReload == /\ Idle
               /\ todo' = [n \in DOMAIN loaded |-> loaded[n].path]
               /\ result' = IF DOMAIN loaded = {} THEN "ok" ELSE "none"
               /\ touched' = {}
               /\ UNCHANGED <<files, host>>

\* Mutation: the manifest in memory is loaded again.
ReloadOne_FromMemory(n) ==
  /\ n \in DOMAIN todo
  /\ Acceptable(loaded[n].manifest)
  /\ Install(todo[n], loaded[n].manifest)
  /\ todo' = Without(todo, n)
  /\ result' = IF DOMAIN todo' = {} THEN "ok" ELSE "none"
  /\ UNCHANGED <<files, touched>>

ReloadOne(n) == /\ n \in DOMAIN todo
                /\ Acceptable(files[todo[n]])
                /\ Install(todo[n], files[todo[n]])
                /\ todo' = Without(todo, n)
                /\ result' = IF DOMAIN todo' = {} THEN "ok" ELSE "none"
                /\ UNCHANGED <<files, touched>>

\* The first file that cannot be loaded ends it; what was loaded stays loaded.
ReloadFails(n) == /\ n \in DOMAIN todo
                  /\ ~Acceptable(files[todo[n]])
                  /\ todo' = Nothing
                  /\ result' = "err"
                  /\ UNCHANGED <<files, host, touched>>

----------------------------------------------------------------------------
(* Registrations by an extension that runs *)

Entitled(n, capability) == /\ n \in DOMAIN loaded
                           /\ capability \in loaded[n].manifest.capabilities

\* Mutation: a name that is taken is taken over.
Register_Overwrites(n, item) == /\ Idle
                                /\ Entitled(n, Needs(item))
                                /\ owner' = With(owner, item, n)
                                /\ UNCHANGED <<files, loaded, hooks, reload, touched>>

\* register_tool and register_command.
Register(n, item) == /\ Idle
                     /\ Entitled(n, Needs(item))
                     /\ item \notin DOMAIN owner
                     /\ owner' = With(owner, item, n)
                     /\ UNCHANGED <<files, loaded, hooks, reload, touched>>

\* register_event_hook does not look for one that is there.
RegisterEventHook(n, h) == /\ Idle
                           /\ Entitled(n, "event_hook_register")
                           /\ hooks[<<n, h>>] < MaxHooks
                           /\ hooks' = [hooks EXCEPT ![<<n, h>>] = @ + 1]
                           /\ UNCHANGED <<files, loaded, owner, reload, touched>>

----------------------------------------------------------------------------
\* Somebody writes or removes a manifest file.
WriteManifest(p, m) == /\ files[p] # m
                       /\ files' = [files EXCEPT ![p] = m]
                       /\ touched' = touched \cup {p}
                       /\ UNCHANGED <<host, reload>>

Next == \/ \E p \in Path : \/ LoadExtensionManifest(p)
                           \/ \E m \in Manifests \cup {Unusable} : WriteManifest(p, m)
        \/ StartReload
        \/ \E n \in Name : \/ ReloadOne(n)
                           \/ ReloadFails(n)
                           \/ \E item \in Item : Register(n, item)
                           \/ \E h \in Hook : RegisterEventHook(n, h)

Spec == Init /\ [][Next]_vars

----------------------------------------------------------------------------
(* Properties *)

\* The type of every variable.
TypeOK == /\ files \in [Path -> Manifests \cup {Unusable}]
          /\ DOMAIN loaded \subseteq Name
          /\ \A n \in DOMAIN loaded :
               loaded[n] \in [path : Path, manifest : Manifests] /\ loaded[n].manifest.name = n
          /\ DOMAIN owner \subseteq Item
          /\ \A item \in DOMAIN owner : owner[item] \in Name
          /\ hooks \in [Name \X Hook -> 0..MaxHooks]
          /\ DOMAIN todo \subseteq Name
          /\ \A n \in DOMAIN todo : todo[n] \in Path
          /\ result \in {"none", "ok", "err"}
          /\ touched \subseteq Path

\* Whatever is registered, and however long ago, its extension is loaded and its
\* present manifest declares the capability: a reload that takes a capability away
\* takes away what was registered with it.
OwnersEntitled ==
  /\ \A item \in DOMAIN owner : Entitled(owner[item], Needs(item))
  /\ \A n \in Name, h \in Hook : hooks[<<n, h>>] > 0 => Entitled(n, "event_hook_register")

\* A loaded extension has registered everything its manifest lists, at every
\* moment, also between the steps of a reload and after one that failed.
ManifestsInstalled ==
  \A n \in DOMAIN loaded :
    /\ \A item \in loaded[n].manifest.items : item \in DOMAIN owner /\ owner[item] = n
    /\ \A h \in loaded[n].manifest.hooks : hooks[<<n, h>>] > 0

\* What is loaded can be loaded again: as long as nobody writes the files, a
\* reload succeeds in whatever order it goes, and after whatever was registered
\* in the meantime.
Reloadable == \A n \in DOMAIN loaded : Acceptable(loaded[n].manifest)

\* No step passes a tool or a command from one extension to another.
NothingChangesHands ==
  [][\A item \in DOMAIN owner \cap DOMAIN owner' : owner'[item] = owner[item]]_vars

\* After a reload that returned Ok, an extension whose file was not written since
\* the reload began has the manifest in that file, unless the file now belongs
\* to an extension of another name.
ReloadIsFresh ==
  result = "ok" =>
    \A n \in DOMAIN loaded :
      LET m == files[loaded[n].path]
      IN loaded[n].path \notin touched /\ m # Unusable /\ m.name = n => loaded[n].manifest = m
=============================================================================
