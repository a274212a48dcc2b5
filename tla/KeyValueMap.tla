---------------------------- MODULE KeyValueMap ----------------------------
(***************************************************************************)
(* What HAPPlatformKeyValueStore promises: a map from names, each a domain *)
(* and a key, to values.  A call that fails changes nothing; the purge of  *)
(* a domain, which removes one value after the other, may stop halfway.    *)
(* When the file system fails as it stores a value, the old one stays, and *)
(* the caller need not learn of it.  Of a value the model keeps its        *)
(* length.                                                                 *)
(***************************************************************************)
EXTENDS Integers

CONSTANTS Names, MaxLength

VARIABLES
  contents,  \* the value stored under each name, or None
  result,    \* what the latest call returned, or NoResult
  failures   \* how often the file system has failed

Values == 1..MaxLength
None == 0
NoResult == [call |-> "none", ok |-> TRUE]
OfDomain(d) == {n \in Names : n[1] = d}
Domains == {n[1] : n \in Names}

Init ==
  /\ contents = [n \in Names |-> None]
  /\ result = NoResult
  /\ failures = 0

\* As much of a value as fits.
Beginning(value, max) == IF value <= max THEN value ELSE max

\* Get finds the value, or nothing if there is none, or fails.
Get(n, max) ==
  /\ \/ result' = [call |-> "get", ok |-> TRUE, found |-> contents[n] # None,
                   value |-> Beginning(contents[n], max)]
     \/ result' = [call |-> "get", ok |-> FALSE]
  /\ UNCHANGED contents

Set(n, v) ==
  \/ contents' = [contents EXCEPT ![n] = v] /\ result' = [call |-> "set", ok |-> TRUE]
  \/ UNCHANGED contents /\ result' = [call |-> "set", ok |-> FALSE]

\* A failure that is ignored.
SetFailsUnnoticed ==
  /\ failures' > failures
  /\ UNCHANGED contents
  /\ result' = [call |-> "set", ok |-> TRUE]

Remove(n) ==
  \/ contents' = [contents EXCEPT ![n] = None] /\ result' = [call |-> "remove", ok |-> TRUE]
  \/ UNCHANGED contents /\ result' = [call |-> "remove", ok |-> FALSE]

PurgeOne(n) == contents' = [contents EXCEPT ![n] = None] /\ UNCHANGED result

\* A purge that succeeds leaves nothing of the domain.
PurgeReturns(d) ==
  /\ \/ /\ \A n \in OfDomain(d) : contents[n] = None
        /\ result' = [call |-> "purge", ok |-> TRUE]
     \/ result' = [call |-> "purge", ok |-> FALSE]
  /\ UNCHANGED contents

\* The caller goes on, or the device restarts: values survive.
Forget == result' = NoResult /\ UNCHANGED contents

Call ==
  \/ \E n \in Names, max \in Values : Get(n, max)
  \/ \E n \in Names, v \in Values : Set(n, v)
  \/ SetFailsUnnoticed
  \/ \E n \in Names : Remove(n)
  \/ \E n \in Names : PurgeOne(n)
  \/ \E d \in Domains : PurgeReturns(d)
  \/ Forget

\* The caller need not see that the file system fails.
Next == failures' >= failures /\ (Call \/ UNCHANGED <<contents, result>>)

Spec == Init /\ [][Next]_<<contents, result, failures>>
=============================================================================
