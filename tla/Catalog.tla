-------------------------------- MODULE Catalog --------------------------------
(***************************************************************************)
(* Catalog::discover of crates/pi-config/src/lib.rs: the skills, prompts,  *)
(* themes and packages that manifests under the standard roots describe,   *)
(* and that the two configuration files switch off and on.                 *)
(*                                                                         *)
(* The manifests of a root are a set: read_dir gives them in any order, so *)
(* of two with one name in one root, either may come first.                *)
(***************************************************************************)
EXTENDS Naturals, Sequences, FiniteSets

CONSTANTS Id,       \* kinds and names of resources, as in "skill:name"
          RootSeq   \* the roots in their order: the workspace's, then the user's

ASSUME RootsAreASequence == RootSeq \in Seq(STRING) /\ RootSeq # <<>>

Root == {RootSeq[i] : i \in 1..Len(RootSeq)}

\* A manifest: the resource it describes, its directory, and whether it can be read
\* and has a description.
Manifest == [id : Id, dir : Nat, valid : BOOLEAN]

\* A configuration file: two lists of ids.  One that is absent, or not JSON, has none.
Toggles == [enabled : SUBSET Id, disabled : SUBSET Id]

\* CatalogItem.
Item == [id : Id, root : Root, dir : Nat, enabled : BOOLEAN]

----------------------------------------------------------------------------
\* load_switches: the lists of all files that can be read, together.
LoadSwitches(configs) ==
  [enabled |-> UNION {config.enabled : config \in configs},
   disabled |-> UNION {config.disabled : config \in configs}]

\* Mutation: what is switched off stays off.
IsEnabled_DisabledWins(switches, id) == id \notin switches.disabled

IsEnabled(switches, id) == id \in switches.enabled \/ id \notin switches.disabled

\* The items of discover_skills and discover_json_resources for one root.
ItemsOf(root, manifests, switches) ==
  {[id |-> m.id, root |-> root, dir |-> m.dir, enabled |-> IsEnabled(switches, m.id)] :
     m \in {n \in manifests : n.valid}}

\* Mutation: a later root replaces what an earlier one has.
Keep_Last(items, more) ==
  {item \in items : \A other \in more : other.id # item.id} \cup more

\* An item is kept unless one with its id is there.
Keep(items, more) ==
  items \cup {item \in more : \A other \in items : other.id # item.id}

\* One item for each id.
OneEach(items) ==
  {chosen \in SUBSET items :
     /\ {item.id : item \in chosen} = {item.id : item \in items}
     /\ \A a, b \in chosen : a.id = b.id => a = b}

\* The catalogs that a discovery may come to.
Discoveries(shelf, configs) ==
  LET switches == LoadSwitches(configs)
      upTo[i \in 0..Len(RootSeq)] ==
        IF i = 0 THEN {{}}
        ELSE {Keep(items, more) :
                items \in upTo[i - 1],
                more \in OneEach(ItemsOf(RootSeq[i], shelf[RootSeq[i]], switches))}
  IN upTo[Len(RootSeq)]

\* enabled_items.
EnabledItems(catalog) == {item \in catalog : item.enabled}

\* Whether load_detail finds an item: what it reads is the file as it is then.
Loadable(catalog, id) == \E item \in EnabledItems(catalog) : item.id = id
=============================================================================
