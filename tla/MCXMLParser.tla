----------------------------- MODULE MCXMLParser -----------------------------
(* Every small file, first its roles and then its attributes: neither half  *)
(* of the parser reads what the other does, so the other part is left out.  *)
(* Two hosts with up to two items each; two sets, each with no element, one *)
(* of up to two items or of three with a repetition, or two elements; five  *)
(* order strings; up to two attributes with names and values of up to two   *)
(* parts, where a value may hold a mark, and templates of up to two pieces  *)
(* with words of up to two parts, names of attributes or not.               *)
EXTENDS RoleSequence, EnvironmentText

CONSTANTS x, y, quote, comma

MCHostLists == BoundedSeq(Item, 2)
MCOneText   == BoundedSeq(Item, 2) \cup {<<a, b, a>> : a \in Item, b \in Item}
MCSetTexts  == {<<>>} \cup {<<text>> : text \in MCOneText}
               \cup {<<text, <<"r2">>>> : text \in {<<>>, <<Blank>>, <<"r1">>}}
MCOrders    == {<<Blank>>, <<"set1">>, <<"set2", "set1">>, <<"set1", Blank, "set2">>,
                <<"set1", "set2", "set1">>}

MCPart  == {x, y, quote, comma}
MCMark  == {quote, comma}
MCWord  == BoundedSeq({x, y}, 2)
MCKey   == MCWord \ {<<>>}
MCValue == MCWord \cup {<<quote>>, <<x, comma>>, <<quote, x>>}

MCKeyPairs  == UNION {[K -> MCValue] : K \in UNION {kSubset(n, MCKey) : n \in 0..2}}
MCTemplates == BoundedSeq([mark : {quote}, word : MCWord], 2)

NoAttributes == key_pair = [k \in {} |-> <<>>] /\ template = <<>>

NoRoles ==
    /\ nodeRoles = [node \in Host |-> <<>>]
    /\ order = <<Blank>>
    /\ element = [set \in SetName |-> <<>>]

ParserInit ==
    \/ NoAttributes /\ FileInit
    \/ NoRoles /\ TextInit

ParserSpec ==
    ParserInit /\ [][UNCHANGED <<fileVars, textVars>>]_<<fileVars, textVars>>
==============================================================================
