----------------------------- MODULE Interlock -----------------------------
(***************************************************************************)
(* The physical interlock of flight-ffb (crates/flight-ffb/src/            *)
(* interlock.rs): the host issues a challenge with a rolling token, the    *)
(* user holds the button combination, and the device echoes the token.     *)
(*                                                                         *)
(* Instants are replaced by ages in clock ticks; an age stops growing one  *)
(* tick past the timeout it is compared with.  The blink pattern and       *)
(* challenge_history, which no operation reads, are left out, and so is    *)
(* set_required, which nothing calls: the engine owns its interlock.       *)
(***************************************************************************)
EXTENDS Integers, FiniteSets

CONSTANTS
    ChallengeTimeout,      \* 30 s in the code
    SatisfactionTimeout,   \* 300 s in the code
    TokenMod,              \* 2^32: token_counter wraps
    IdMod                  \* 2^64: challenge_counter wraps

VARIABLES
    required,          \* whether the device needs the interlock
    challenge,         \* the active challenge, or NoChallenge
    satisfied,
    satisfiedAge,      \* ticks since last_satisfied, or Never
    tokenCounter,
    challengeCounter

interlockVars == <<required, challenge, satisfied, satisfiedAge,
                   tokenCounter, challengeCounter>>

Tokens == 0 .. TokenMod - 1

Ids == 0 .. IdMod - 1

Never == -1

NoChallenge == [id |-> -1, token |-> -1, age |-> 0]

Challenges == [id : Ids, token : Tokens, age : 0 .. ChallengeTimeout + 1]

\* What a device may send: any identifier and token; exactly the required
\* buttons pressed or not; held for the required 2000 ms or not.
Responses == [id : Ids, token : Tokens, buttonsMatch : BOOLEAN, held : BOOLEAN]

Older(age, limit) == IF age <= limit THEN age + 1 ELSE age

InterlockInit ==
    /\ required \in BOOLEAN
    /\ challenge = NoChallenge
    /\ satisfied = FALSE
    /\ satisfiedAge = Never
    /\ tokenCounter = 1
    /\ challengeCounter = 1

\* A satisfaction without a last_satisfied never expires.
IsSatisfied ==
    \/ ~ required
    \/ satisfied /\ satisfiedAge <= SatisfactionTimeout

NextId(c) == (c + 1) % IdMod

\* The rolling token avoids zero when it wraps.
NextToken(c) == IF (c + 1) % TokenMod = 0 THEN 1 ELSE (c + 1) % TokenMod

GenerateChallenge ==
    /\ tokenCounter' = NextToken(tokenCounter)
    /\ challengeCounter' = NextId(challengeCounter)
    /\ challenge' = [id |-> challengeCounter', token |-> tokenCounter',
                     age |-> 0]
    /\ UNCHANGED <<required, satisfied, satisfiedAge>>

\* Every check of validate_response.
Accepts(r) ==
    /\ challenge # NoChallenge
    /\ r.id = challenge.id
    /\ challenge.age <= ChallengeTimeout
    /\ r.token = challenge.token
    /\ r.buttonsMatch
    /\ r.held

\* Mutant: an answered challenge stays open.
ValidateResponseKeepsOpen(r) ==
    /\ IF Accepts(r)
         THEN satisfied' = TRUE /\ satisfiedAge' = 0
         ELSE UNCHANGED <<satisfied, satisfiedAge>>
    /\ UNCHANGED <<challenge, required, tokenCounter, challengeCounter>>

\* A rejected response changes nothing, and the challenge stays open.
ValidateResponse(r) ==
    /\ IF Accepts(r)
         THEN /\ satisfied' = TRUE
              /\ satisfiedAge' = 0
              /\ challenge' = NoChallenge
         ELSE UNCHANGED <<satisfied, satisfiedAge, challenge>>
    /\ UNCHANGED <<required, tokenCounter, challengeCounter>>

ResetInterlock ==
    /\ satisfied' = FALSE
    /\ satisfiedAge' = Never
    /\ challenge' = NoChallenge
    /\ UNCHANGED <<required, tokenCounter, challengeCounter>>

InterlockTick ==
    /\ challenge' = IF challenge = NoChallenge THEN challenge
                    ELSE [challenge EXCEPT !.age = Older(@, ChallengeTimeout)]
    /\ satisfiedAge' = IF satisfiedAge = Never THEN Never
                       ELSE Older(satisfiedAge, SatisfactionTimeout)
    /\ UNCHANGED <<required, satisfied, tokenCounter, challengeCounter>>

InterlockTypeOK ==
    /\ required \in BOOLEAN
    /\ challenge \in Challenges \cup {NoChallenge}
    /\ satisfied \in BOOLEAN
    /\ satisfiedAge \in Never .. SatisfactionTimeout + 1
    /\ tokenCounter \in Tokens \ {0}
    /\ challengeCounter \in Ids
=============================================================================
