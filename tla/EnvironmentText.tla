-------------------------- MODULE EnvironmentText --------------------------
(***************************************************************************)
(* get_environment_content of scripts/install_openstack.py: the text of    *)
(* the Chef environment is that of a JSON template in which the name of    *)
(* each attribute of the XML file is replaced by its value, wherever it    *)
(* occurs.  A text is a sequence of parts, as a name is one of words and   *)
(* dots.  Some parts, the marks, are in no name: quotes, blanks, commas,   *)
(* colons and brackets.  A template is cut before each of its marks (as a  *)
(* JSON text it begins with one); what follows a mark up to the next one   *)
(* is a word, in quotes or not, and most words are empty.  A behaviour is  *)
(* one file, which the script reads once and never writes.                 *)
(***************************************************************************)
EXTENDS Naturals, SequencesExt

CONSTANTS
    Part,       \* what texts are made of
    Mark,       \* the parts that no name of an attribute has
    KeyPairs,   \* bound: the attributes of a file, name -> value
    Templates   \* bound: the templates

Text == Seq(Part)

(* A template is a sequence of pieces, each a mark and the word after it.   *)
ASSUME TextAssumption ==
    /\ Mark \subseteq Part
    /\ \A pairs \in KeyPairs :
          /\ IsFiniteSet(DOMAIN pairs)
          /\ \A k \in DOMAIN pairs :
                k \in Seq(Part \ Mark) /\ k # <<>> /\ pairs[k] \in Text
    /\ Templates \subseteq Seq([mark : Mark, word : Seq(Part \ Mark)])

VARIABLES
    key_pair, \* name of an attribute -> its value
    template

textVars == <<key_pair, template>>

TextInit == key_pair \in KeyPairs /\ template \in Templates

TextSpec == TextInit /\ [][UNCHANGED textVars]_textVars

------------------------------------------------------------------------------
Ends(text, k) ==
    Len(k) <= Len(text) /\ \A j \in 1..Len(k) : text[Len(text) - Len(k) + j] = k[j]

\* mutant: replace(k, v, 1)
ReadOnce(acc, part, k, v) ==
    LET tail == Append(acc.tail, part)
    IN  IF acc.done = <<>> /\ Ends(tail, k)
        THEN [done |-> SubSeq(tail, 1, Len(tail) - Len(k)) \o v, tail |-> <<>>]
        ELSE [done |-> acc.done, tail |-> tail]

(* One more part: `tail` is what was read since the last replacement, and   *)
(* `done` what comes before it.                                             *)
Read(acc, part, k, v) ==
    LET tail == Append(acc.tail, part)
    IN  IF Ends(tail, k)
        THEN [done |-> acc.done \o SubSeq(tail, 1, Len(tail) - Len(k)) \o v, tail |-> <<>>]
        ELSE [done |-> acc.done, tail |-> tail]

(* str.replace: every occurrence from the left, not looking again at what   *)
(* was put in.                                                              *)
Replace(text, k, v) ==
    LET read[i \in 0..Len(text)] ==
          IF i = 0 THEN [done |-> <<>>, tail |-> <<>>] ELSE Read(read[i - 1], text[i], k, v)
    IN  read[Len(text)].done \o read[Len(text)].tail

(* get_environment_content: one key after the other, in the order in which  *)
(* items() of the dictionary gives them.                                    *)
GetEnvironmentContent(items, text) ==
    LET content[i \in 0..Len(items)] ==
          IF i = 0 THEN text ELSE Replace(content[i - 1], items[i], key_pair[items[i]])
    IN  content[Len(items)]

------------------------------------------------------------------------------
(* The text of these pieces.                                                *)
Joined(pieces) ==
    LET joined[i \in 0..Len(pieces)] ==
          IF i = 0 THEN <<>> ELSE joined[i - 1] \o <<pieces[i].mark>> \o pieces[i].word
    IN  joined[Len(pieces)]

IsPart(k, text) ==
    \E i \in 0..Len(text) :
       i + Len(k) <= Len(text) /\ \A j \in 1..Len(k) : text[i + j] = k[j]

(* No key but the word itself is a part of what stands in its place when    *)
(* the turn of that key comes: of the word, and of its value once that has  *)
(* been put in.                                                             *)
LeftAlone(items, word) ==
    \A q \in DOMAIN items : items[q] # word =>
       ~IsPart(items[q], IF \E p \in 1..(q - 1) : items[p] = word THEN key_pair[word] ELSE word)

(* Every piece by itself.                                                   *)
Filled(items) ==
    [i \in DOMAIN template |->
        [template[i] EXCEPT !.word = GetEnvironmentContent(items, template[i].word)]]

(* The environment is the template with its words replaced, each by itself: *)
(* no replacement reaches over a mark, although what it puts in may hold    *)
(* marks.  A word that is a key becomes its value and any other word stays, *)
(* as often as it occurs, in whatever order the dictionary gives its items; *)
(* but the loop replaces anywhere, and looks again at what it put in, so    *)
(* that only a word that no other key disturbs in that order is sure to.    *)
EnvironmentIsFilledIn ==
    \A items \in Bijection(1..Cardinality(DOMAIN key_pair), DOMAIN key_pair) :
       /\ GetEnvironmentContent(items, Joined(template)) = Joined(Filled(items))
       /\ \A i \in DOMAIN template :
             LET word == template[i].word
             IN  LeftAlone(items, word) =>
                    Filled(items)[i].word =
                       IF word \in DOMAIN key_pair THEN key_pair[word] ELSE word
==============================================================================
