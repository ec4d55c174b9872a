---------------------------- MODULE MXCalculator ----------------------------
(***************************************************************************)
(* How a satellite finds the mail servers of a domain, as operators: it    *)
(* asks the DNS for the records of a name, follows aliases (CNAME) inside  *)
(* the answer and, when the answer does not hold their target, by another  *)
(* request, and prefers servers that did not fail lately.                  *)
(*                                                                         *)
(* Names are what they are in lower case: a target that is spelled with    *)
(* capitals is not found by the code, whose answers have lower-case keys.  *)
(***************************************************************************)
EXTENDS Naturals, FiniteSets

CONSTANTS Name, NoName, Host

ASSUME MXAssumption == IsFiniteSet(Name) /\ IsFiniteSet(Host) /\ NoName \notin Name

Exchange == [preference: Nat, host: Host]

(* What the DNS has of a name: an alias, mail servers, or nothing.         *)
Records == [to: Name \cup {NoName}, exchanges: SUBSET Exchange]
Zone == [Name -> Records]

(* The answer to a request holds the records of the name, and of as many   *)
(* names that follow it as the server adds ("links").                      *)
Follow(zone, name, n) ==
  LET at[k \in 0..n] ==
        IF k = 0 THEN name
        ELSE IF at[k - 1] = NoName THEN NoName ELSE zone[at[k - 1]].to
  IN at[n]

Exists(zone, name) ==
  name # NoName /\ (zone[name].to # NoName \/ zone[name].exchanges # {})

Answer(zone, name, links) ==
  {n \in {Follow(zone, name, k) : k \in 0..links} : Exists(zone, n)}

Nothing == [kind |-> "nothing"]
Loop == [kind |-> "loop"]
TooLong == [kind |-> "long"]
Ask(name) == [kind |-> "ask", name |-> name]
Found(exchanges) == [kind |-> "found", exchanges |-> exchanges]

(* Records are taken out of the answer as they are looked at, so that a    *)
(* name met again has none left; the name asked for is known as an alias.  *)
Search(zone, name, links) ==
  LET answers == Answer(zone, name, links)
      search[left \in SUBSET answers] ==
        [at \in Name |->
           IF at \notin left THEN Nothing
           ELSE IF zone[at].to = NoName THEN Found(zone[at].exchanges)
           ELSE IF zone[at].to \notin answers THEN Ask(zone[at].to)
           ELSE IF zone[at].to = name THEN Loop
           ELSE search[left \ {at}][zone[at].to]]
  IN search[answers][name]

(* Variant: a shorter chain.                                               *)
MaximumLess == 2
MaximumCanonicalChainLength == 3

GetMX(zone, domain, links) ==
  LET get[left \in 0..MaximumCanonicalChainLength] ==
        [name \in Name |->
           LET result == Search(zone, name, links)
           IN IF result.kind # "ask" THEN result
              ELSE IF left = 0 THEN TooLong ELSE get[left - 1][result.name]]
  IN get[MaximumCanonicalChainLength][domain]

(* The servers that may come first: of those that are not bad, or of all   *)
(* when every one is.  Equal preferences come in any order.                *)
First(exchanges, bad) ==
  LET good == {e \in exchanges : e.host \notin bad}
      usable == IF good = {} THEN exchanges ELSE good
  IN {h \in Host : \E e \in usable :
                     e.host = h /\ \A f \in usable : e.preference <= f.preference}

-----------------------------------------------------------------------------
(* Reference: the servers of a domain are those of the name its aliases    *)
(* end in, if four answers reach that far.                                 *)
Ends(zone, domain, links) ==
  {k \in 0..(4 * (links + 1) - 1) :
     LET n == Follow(zone, domain, k)
     IN n # NoName /\ zone[n].to = NoName /\ zone[n].exchanges # {}}

LookupIsRight(zone, domain, links) ==
  LET result == GetMX(zone, domain, links)
  IN IF result.kind = "found"
     THEN \E k \in Ends(zone, domain, links) :
            result.exchanges = zone[Follow(zone, domain, k)].exchanges
     ELSE Ends(zone, domain, links) = {}

=============================================================================
