------------------------------- MODULE IPBlocks -------------------------------
(***************************************************************************)
(* ParseIPBlock: the networks that remain of an IP block when its          *)
(* exceptions are taken out, for addresses of W bits.  A network is its    *)
(* first address and the length of its prefix.                             *)
(***************************************************************************)
EXTENDS Integers, FiniteSets

CONSTANTS W, Inputs  \* Inputs: IP blocks, records of a cidr and a set of exceptions

VARIABLES block, exceptCIDRs, newCIDRs, panicked

vars == <<block, exceptCIDRs, newCIDRs, panicked>>

CIDRs == {c \in [base : 0..(2^W - 1), prefix : 0..W] : c.base % 2^(W - c.prefix) = 0}

Addresses(c) == c.base .. (c.base + 2^(W - c.prefix) - 1)

\* The network of an address.
Network(ip, prefix) == [base |-> ip - (ip % 2^(W - prefix)), prefix |-> prefix]

Contains(c, ip) == ip \in Addresses(c)

\* The webhook's check: every exception is a smaller network inside the block.
validateIPBlock(b) ==
    \A e \in b.except : Contains(b.cidr, e.base) /\ b.cidr.prefix < e.prefix

\* What mergeCIDRs leaves: no network inside another one.
mergeCIDRs(cidrs) ==
    {c \in cidrs : ~\E d \in cidrs : c # d /\ Contains(d, c.base) /\ d.prefix <= c.prefix}

flipSingleBit(ip, bit) == IF (ip \div 2^bit) % 2 = 1 THEN ip - 2^bit ELSE ip + 2^bit

\* (Mutant: the last half is forgotten.)
diffFromCIDRShort(allow, except) ==
    {Network(flipSingleBit(except.base, W - i), i) : i \in (allow.prefix + 1) .. (except.prefix - 1)}

\* The halves that are cut off on the way from a network down to one inside it.
diffFromCIDR(allow, except) ==
    {Network(flipSingleBit(except.base, W - i), i) : i \in (allow.prefix + 1) .. except.prefix}

\* An IP block that the webhook lets through comes to an agent.
Init ==
    /\ block \in {b \in Inputs : validateIPBlock(b)}
    /\ exceptCIDRs = mergeCIDRs(block.except)
    /\ newCIDRs = {block.cidr}
    /\ panicked = FALSE

\* The exceptions are sorted: the largest first.
Largest == {e \in exceptCIDRs : \A d \in exceptCIDRs : e.prefix <= d.prefix}

\* One turn of the loop of DiffFromCIDRs.  Room for a negative number of networks
\* cannot be made.
Turn(e) ==
    LET touched == {c \in newCIDRs : Contains(c, e.base) \/ Contains(e, c.base)}
    IN
    /\ ~panicked
    /\ \/ \E c \in touched :
             /\ panicked' = (Contains(c, e.base) /\ e.prefix < c.prefix)
             /\ newCIDRs' = (newCIDRs \ {c}) \cup
                            (IF Contains(c, e.base) THEN diffFromCIDR(c, e) ELSE {})
             /\ UNCHANGED exceptCIDRs
       \/ /\ touched = {}
          /\ exceptCIDRs' = exceptCIDRs \ {e}
          /\ UNCHANGED <<newCIDRs, panicked>>
    /\ UNCHANGED block

Next == \E e \in Largest : Turn(e)

------------------------------------------------------------------------------
\* An IP block that the webhook accepts is cut into networks that do not overlap
\* and cover, exception by exception, exactly the addresses of the block outside
\* those already taken out; and DiffFromCIDRs never asks for a slice of negative
\* capacity, which would end the agent.
IPBlockExact ==
    /\ ~panicked
    /\ \A c, d \in newCIDRs : c # d => Addresses(c) \cap Addresses(d) = {}
    /\ exceptCIDRs = {} =>
         UNION {Addresses(c) : c \in newCIDRs}
           = Addresses(block.cidr) \ UNION {Addresses(e) : e \in block.except}
===============================================================================
