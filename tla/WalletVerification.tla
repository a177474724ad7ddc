--------------------------- MODULE WalletVerification ---------------------------
(***************************************************************************)
(* walletVerificationService: a challenge is issued to a user for an       *)
(* address, a signed answer consumes it and links the address.  Requests   *)
(* interleave at every statement, and one may be cut off at any of them.   *)
(***************************************************************************)
EXTENDS Integers

CONSTANTS Requests, Users, Addresses, Challenges, None

\* What the theorems assume.
NoneIsNobody == None \notin Users \cup Addresses

VARIABLES
  challenge,  \* challenge[c]: WalletChallenge: [user, address, consumed, expired]
  wallet,     \* wallet[a]: the user of the VerifiedWallet of a, or None
  verify,     \* verify[r]: [pc, user, challenge, address]: a verifyWalletChallenge under way
  links       \* links[c]: how many rows the answers to c have created

vars == <<challenge, wallet, verify, links>>

NoChallenge == [user |-> None, address |-> None, consumed |-> FALSE, expired |-> FALSE]
NoVerify == [pc |-> "idle", user |-> None, challenge |-> None, address |-> None]

Init ==
  /\ challenge = [c \in Challenges |-> NoChallenge]
  /\ wallet = [a \in Addresses |-> None]
  /\ verify = [r \in Requests |-> NoVerify]
  /\ links = [c \in Challenges |-> 0]

Goes(r, pc) == verify' = [verify EXCEPT ![r].pc = pc]
Ends(r) == verify' = [verify EXCEPT ![r] = NoVerify]

-----------------------------------------------------------------------------
\* createWalletChallenge
Issue(c, u, a) ==
  /\ challenge[c] = NoChallenge
  /\ challenge' = [challenge EXCEPT ![c] = [NoChallenge EXCEPT !.user = u, !.address = a]]
  /\ UNCHANGED <<wallet, verify, links>>

Expire(c) ==
  /\ challenge[c].user # None /\ ~challenge[c].expired
  /\ challenge' = [challenge EXCEPT ![c].expired = TRUE]
  /\ UNCHANGED <<wallet, verify, links>>

\* The signature is the address's own, over the message of this challenge.
Verify(r, u, c, a) ==
  /\ verify[r].pc = "idle" /\ challenge[c].user # None
  /\ verify' = [verify EXCEPT ![r] = [pc |-> "read", user |-> u, challenge |-> c, address |-> a]]
  /\ UNCHANGED <<challenge, wallet, links>>

Accepts(v) ==
  LET c == challenge[v.challenge]
  IN ~c.consumed /\ ~c.expired /\ c.user = v.user /\ c.address = v.address

Read(r) ==
  /\ verify[r].pc = "read"
  /\ IF Accepts(verify[r]) THEN Goes(r, "consume") ELSE Ends(r)
  /\ UNCHANGED <<challenge, wallet, links>>

\* Mutant: the consumption is a plain update of the row read.
TakenNever(c) == FALSE

\* updateMany WHERE consumedAt IS NULL
Taken(c) == challenge[c].consumed

Consume(r) ==
  /\ verify[r].pc = "consume"
  /\ challenge' = [challenge EXCEPT ![verify[r].challenge].consumed = TRUE]
  /\ IF Taken(verify[r].challenge) THEN Ends(r) ELSE Goes(r, "link")
  /\ UNCHANGED <<wallet, links>>

\* @@unique([network, address])
Link(r) ==
  LET v == verify[r]
  IN /\ v.pc = "link"
     /\ IF wallet[v.address] = None
        THEN /\ wallet' = [wallet EXCEPT ![v.address] = v.user]
             /\ links' = [links EXCEPT ![v.challenge] = @ + 1]
             /\ Ends(r)
        ELSE Goes(r, "conflict") /\ UNCHANGED <<wallet, links>>
     /\ UNCHANGED challenge

\* The row that was in the way: the user's own is a success, anything else, even nothing, a refusal.
Existing(r) ==
  /\ verify[r].pc = "conflict" /\ Ends(r)
  /\ UNCHANGED <<challenge, wallet, links>>

\* The process dies, or a statement fails: what was committed stays.
CutOff(r) ==
  /\ verify[r].pc # "idle" /\ Ends(r)
  /\ UNCHANGED <<challenge, wallet, links>>

\* unlinkVerifiedWallet: only its own user's row.
Unlink(u, a) ==
  /\ wallet[a] = u
  /\ wallet' = [wallet EXCEPT ![a] = None]
  /\ UNCHANGED <<challenge, verify, links>>

-----------------------------------------------------------------------------
Next ==
  \/ \E c \in Challenges, u \in Users, a \in Addresses : Issue(c, u, a)
  \/ \E c \in Challenges : Expire(c)
  \/ \E r \in Requests :
       \/ \E u \in Users, c \in Challenges, a \in Addresses : Verify(r, u, c, a)
       \/ Read(r) \/ Consume(r) \/ Link(r) \/ Existing(r) \/ CutOff(r)
  \/ \E u \in Users, a \in Addresses : Unlink(u, a)

Spec == Init /\ [][Next]_vars

-----------------------------------------------------------------------------
TypeOK ==
  /\ challenge \in [Challenges -> [user: Users \cup {None}, address: Addresses \cup {None},
                                   consumed: BOOLEAN, expired: BOOLEAN]]
  /\ wallet \in [Addresses -> Users \cup {None}]
  /\ verify \in [Requests -> [pc: {"idle", "read", "consume", "link", "conflict"},
                              user: Users \cup {None}, challenge: Challenges \cup {None},
                              address: Addresses \cup {None}]]
  /\ links \in [Challenges -> Nat]

\* A signed answer creates a row at most once, whatever requests race over it and whatever is unlinked between.
OneLinkPerChallenge == \A c \in Challenges : links[c] <= 1

\* Nobody holds an address without a consumed challenge issued to them for it.
OwnersHaveProof ==
  \A a \in Addresses : wallet[a] # None =>
    \E c \in Challenges : /\ challenge[c].user = wallet[a] /\ challenge[c].address = a
                          /\ challenge[c].consumed /\ links[c] > 0

\* A signed challenge links at most once, and every linked owner has proved the address.
ProofsAreUsedOnce == TypeOK /\ OneLinkPerChallenge /\ OwnersHaveProof
=============================================================================
