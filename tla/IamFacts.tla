-------------------------------- MODULE IamFacts --------------------------------
(***************************************************************************)
(* What the IAM collector says of the Terraform blocks in its scope: which  *)
(* statements grant a whole service, and whether anything could grant one   *)
(* without the collector reading it.                                       *)
(***************************************************************************)
EXTENDS Integers, Sequences, FiniteSets

Wildcards == {"*", "?"}

-----------------------------------------------------------------------------
(***************************************************************************)
(* Actions.  An action is a service and a name, each a sequence of          *)
(* characters, of which * stands for any characters and ? for one.          *)
(***************************************************************************)

\* _is_service_wide.
IsServiceWide(action) ==
  \/ \E i \in DOMAIN action.service : action.service[i] \in Wildcards
  \/ /\ \A i \in DOMAIN action.name : action.name[i] \in Wildcards
     /\ \E i \in DOMAIN action.name : action.name[i] = "*"

\* How AWS (external) matches a name against a pattern.
Matches(pattern, name) ==
  LET p == Len(pattern)
      n == Len(name)
      match[at \in (1..(p + 1)) \X (1..(n + 1))] ==
        LET i == at[1]
            j == at[2]
        IN  IF i > p THEN j > n
            ELSE IF pattern[i] = "*" THEN match[<<i + 1, j>>] \/ (j <= n /\ match[<<i, j + 1>>])
            ELSE j <= n /\ pattern[i] \in {"?", name[j]} /\ match[<<i + 1, j + 1>>]
  IN  match[<<1, 1>>]

\* The pattern allows every name long enough for it.
AllowsWholeService(action, names) ==
  /\ \E i \in DOMAIN action.name : action.name[i] = "*"
  /\ \A name \in names : Len(name) >= Len(action.name) => Matches(action.name, name)

-----------------------------------------------------------------------------
(***************************************************************************)
(* Statements.  A field is what the parser makes of it: a literal, or       *)
(* "unknown" where it is an expression.                                    *)
(***************************************************************************)

Effects == {"Allow", "Deny", "unknown"}
Actions == {"narrow", "wide", "unknown"}
\* "fixed" is a string with interpolations and some fixed text besides stars.
Resources == {"scoped", "star", "fixed", "unknown"}

StatementIsKnown(statement) ==
  /\ statement.effect # "unknown" /\ statement.action # "unknown"
  /\ statement.resource # "unknown"

\* _statement_is_wildcard_grant: whatever the resource.
GrantsWildcard(statement) == statement.effect = "Allow" /\ statement.action = "wide"

\* With what is unknown it could.
MayGrantWildcard(statement) ==
  statement.effect # "Deny" /\ statement.action # "narrow"

-----------------------------------------------------------------------------
(***************************************************************************)
(* Blocks.  An address is a type and a name in a root module.               *)
(*   document    aws_iam_policy_document with one statement                 *)
(*   policy      aws_iam_policy with a statement of its own, or the         *)
(*               document its target names                                  *)
(*   attachment  of the policy its target names, or of one that is not      *)
(*               declared here                                              *)
(*   hidden      a module, an IAM type the parser does not know, a dynamic  *)
(*               block: what it grants is not read                          *)
(***************************************************************************)

Address(block) == <<block.root, block.type, block.name>>

\* Documents the collector has read, in the root module of a block.
DocumentsRead(blocks, root) ==
  {b.name : b \in {c \in blocks : /\ c.type = "document" /\ c.root = root
                                  /\ StatementIsKnown(c.statement)}}

PoliciesIn_AnyRoot(blocks, root) == {b.name : b \in {c \in blocks : c.type = "policy"}}

PoliciesIn(blocks, root) ==
  {b.name : b \in {c \in blocks : c.type = "policy" /\ c.root = root}}

\* A block the collector cannot account for.
Fails(blocks, block) ==
  \/ block.type = "hidden"
  \/ block.type = "document" /\ ~StatementIsKnown(block.statement)
  \/ block.type = "attachment" /\ block.target \notin PoliciesIn(blocks, block.root)
  \/ /\ block.type = "policy"
     /\ IF block.body = "reference" THEN block.target \notin DocumentsRead(blocks, block.root)
        ELSE ~StatementIsKnown(block.statement)

\* Duplicate addresses are a failure as well: the one would replace the other.
IamCoverage(blocks) ==
  IF \/ \E b \in blocks : Fails(blocks, b)
     \/ \E b, c \in blocks : b # c /\ Address(b) = Address(c)
  THEN "partial" ELSE "ok"

\* The blocks there is evidence of.
IamEvidence(blocks) ==
  {b \in blocks : /\ b.type = "document" \/ (b.type = "policy" /\ b.body = "literal")
                  /\ StatementIsKnown(b.statement) /\ GrantsWildcard(b.statement)}

\* Terraform and AWS (external): what an attached policy may grant.  A reference
\* reaches the blocks of its own root module.
PolicyMayGrant(blocks, block) ==
  IF block.body = "literal" THEN MayGrantWildcard(block.statement)
  ELSE LET found == {b \in blocks : /\ b.type = "document" /\ b.root = block.root
                                    /\ b.name = block.target}
       IN  found = {} \/ \E b \in found : MayGrantWildcard(b.statement)

SomebodyMayHoldWildcard(blocks) ==
  \E b \in blocks :
    \/ b.type = "hidden"
    \/ /\ b.type = "attachment"
       /\ LET found == {c \in blocks : /\ c.type = "policy" /\ c.root = b.root
                                       /\ c.name = b.target}
          IN  found = {} \/ \E c \in found : PolicyMayGrant(blocks, c)

=============================================================================
