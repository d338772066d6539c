---------------------------- MODULE RoleSequence ----------------------------
(***************************************************************************)
(* XMLParser of scripts/install_openstack.py: from the XML file (the roles *)
(* each host lists, and the named sets of roles in their order) to the     *)
(* waves of Chef.bootstrap, one function host -> run list per wave.        *)
(* A comma separated string is the sequence of its stripped items; Blank   *)
(* stands for an item that is empty after strip(), and <<>> for the text   *)
(* of an element that has none.  A behaviour is one file, which the script *)
(* reads once and never writes.                                            *)
(***************************************************************************)
EXTENDS Naturals, SequencesExt

CONSTANTS
    Host,      \* the hosts of the file
    SetName,   \* the names of its sets of roles
    Role,      \* the names of roles
    Blank,
    HostLists, \* bound: the texts in which a host lists its roles
    Orders,    \* bound: the strings of the order attribute
    SetTexts   \* bound: the texts of the elements with the name of a set

Item == Role \cup {Blank}

ASSUME FileAssumption ==
    /\ IsFiniteSet(Host)
    /\ HostLists \subseteq Seq(Item)
    /\ Orders \subseteq Seq(SetName \cup {Blank})
    /\ SetTexts \subseteq Seq(Seq(Item))

VARIABLES
    nodeRoles, \* host -> the roles its last <node> lists
    order,     \* the sets in their order
    element    \* name of a set -> the texts of its elements, top to bottom

fileVars == <<nodeRoles, order, element>>

FileInit ==
    /\ nodeRoles \in [Host -> HostLists]
    /\ order \in Orders
    /\ element \in [SetName -> SetTexts]

FileSpec == FileInit /\ [][UNCHANGED fileVars]_fileVars

------------------------------------------------------------------------------

\* `if item not in list and item != '': list.append(item)`
Keep(list, item) ==
    IF item = Blank \/ Contains(list, item) THEN list ELSE Append(list, item)

(* split(','), strip(), drop blanks and repetitions: list[i] is the list    *)
(* after i turns of the loop.  copy_list does the same to a list.           *)
StringToList(items) ==
    LET list[i \in 0..Len(items)] ==
          IF i = 0 THEN <<>> ELSE Keep(list[i - 1], items[i])
    IN  list[Len(items)]

\* getElementsByTagName(name)[0].firstChild.nodeValue
GetValueOfElement(name) == element[name][1]

(* The order attribute names the sets; each name is that of an element.     *)
GetRoleSequences ==
    LET names == StringToList(order)
    IN  [i \in DOMAIN names |-> StringToList(GetValueOfElement(names[i]))]

\* get_node_roles, for one host
GetNodeRoles(node) == StringToList(nodeRoles[node])

GetNodesByRole(role) ==
    {node \in Host : Contains(GetNodeRoles(node), role)}

GetNodesNullDict == [node \in Host |-> <<>>]

(* The two inner loops for one set of roles.  `dict` has every host,        *)
(* `nodes_dict` the hosts that got a role.                                  *)
AddRole(dicts, role) ==
    LET nodes == GetNodesByRole(role)
        dict  == [node \in Host |->
                     IF node \in nodes THEN Append(dicts.dict[node], role)
                     ELSE dicts.dict[node]]
    IN  [dict       |-> dict,
         nodes_dict |-> [node \in DOMAIN dicts.nodes_dict \cup nodes |->
                            IF node \in nodes THEN StringToList(dict[node])
                            ELSE dicts.nodes_dict[node]]]

NullDicts ==
    [dict |-> GetNodesNullDict, nodes_dict |-> [node \in {} |-> <<>>]]

\* the loop over the roles of the set
AddRoles(start, sequence) ==
    LET dicts[i \in 0..Len(sequence)] ==
          IF i = 0 THEN start ELSE AddRole(dicts[i - 1], sequence[i])
    IN  dicts[Len(sequence)]

\* if nodes_dict: list.append(nodes_dict)
AppendWave(list, nodes_dict) ==
    IF DOMAIN nodes_dict = {} THEN list ELSE Append(list, nodes_dict)

\* mutant: the null dict is made once, before the loop over the sets
SequenceOneDict ==
    LET sequences == GetRoleSequences
        dicts[i \in 0..Len(sequences)] ==
          IF i = 0 THEN NullDicts
          ELSE AddRoles([dicts[i - 1] EXCEPT !.nodes_dict = [node \in {} |-> <<>>]], sequences[i])
        list[i \in 0..Len(sequences)] ==
          IF i = 0 THEN <<>> ELSE AppendWave(list[i - 1], dicts[i].nodes_dict)
    IN  list[Len(sequences)]

(* The loop over the sets.                                                  *)
GetNodeRolesSequence ==
    LET sequences == GetRoleSequences
        list[i \in 0..Len(sequences)] ==
          IF i = 0 THEN <<>>
          ELSE AppendWave(list[i - 1], AddRoles(NullDicts, sequences[i]).nodes_dict)
    IN  list[Len(sequences)]

(* [0] raises IndexError for a set the file does not have, .nodeValue or    *)
(* split AttributeError for an element without a text: a set when it is     *)
(* read, a host when any role is looked for.                                *)
Parses ==
    LET sets == Range(order) \ {Blank}
    IN  /\ \A set \in sets : element[set] # <<>> /\ GetValueOfElement(set) # <<>>
        /\ \/ \A node \in Host : nodeRoles[node] # <<>>
           \/ \A set \in sets : Range(GetValueOfElement(set)) \subseteq {Blank}

\* a script that raised makes none
Waves == IF Parses THEN GetNodeRolesSequence ELSE <<>>

\* get_commands and bootstrap: one knife bootstrap per host of each wave
GetCommands == [w \in DOMAIN Waves |-> DOMAIN Waves[w]]

------------------------------------------------------------------------------
(* x is mentioned in items before the first y.                              *)
Precedes(items, x, y) ==
    \E i \in DOMAIN items : items[i] = x /\ \A j \in 1..i : items[j] # y

(* list has each of wanted once, in the order of first mention in items.    *)
ListsInOrder(list, items, wanted) ==
    /\ list \in Seq(wanted)
    /\ wanted \subseteq Range(list)
    /\ \A i, j \in DOMAIN list : i < j => Precedes(items, list[i], list[j])

(* The roles of the set that the host lists, and who has any.               *)
Needs(node, set) == (Range(nodeRoles[node]) \cap Range(element[set][1])) \ {Blank}
Needing(set)     == {node \in Host : Needs(node, set) # {}}

(* The sets of the file that some host has a role of.                       *)
UsedSets == {set \in Range(order) \ {Blank} : Needing(set) # {}}

(* If the file parses, the waves are the used sets in the order of their    *)
(* first mention, one wave for each: its hosts are those that list a role   *)
(* of the set, and each gets the roles of the set that it lists, in the     *)
(* order of the set and once each.  No role a host lists and the first      *)
(* element of a set names is lost, none moves to another wave or host,      *)
(* repeated or empty items change nothing.  What a second element of the    *)
(* same name holds is in no wave.                                           *)
WavesAreTheSets ==
    Parses =>
       \E sets \in [DOMAIN Waves -> UsedSets] :
          /\ ListsInOrder(sets, order, UsedSets)
          /\ \A w \in DOMAIN Waves :
                /\ DOMAIN Waves[w] = Needing(sets[w])
                /\ \A node \in DOMAIN Waves[w] :
                      ListsInOrder(Waves[w][node], element[sets[w]][1], Needs(node, sets[w]))
==============================================================================
