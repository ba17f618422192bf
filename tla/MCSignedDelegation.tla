------------------------- MODULE MCSignedDelegation -------------------------
(* An instance of SignedDelegation for TLC. *)
EXTENDS SignedDelegation, TLC

CONSTANTS acme, beta, buyer, other, oldKey, newKey, betaKey, spareKey, kid1, kid2,
          pay, deploy, shop, bank, USD, EUR, staging

\* beta uses the id of acme's old key for a key of its own, and so does acme for a third.
MCKeyId == (oldKey :> kid1) @@ (newKey :> kid2) @@ (betaKey :> kid1) @@ (spareKey :> kid1)
MCKeyOwner == (oldKey :> acme) @@ (newKey :> acme) @@ (betaKey :> beta) @@ (spareKey :> acme)

\* To pay a shop up to 2 dollars; the same in any currency, to anyone but the bank,
\* without a limit; and to deploy, only reversibly and with a quorum.
small == [allowed |-> {pay}, max |-> 2, currency |-> USD, targets |-> {shop}, blocked |-> {},
          sensitive |-> {}, reversibleOnly |-> FALSE, quorum |-> FALSE]
wide == [allowed |-> {pay, deploy}, max |-> NoLimit, currency |-> EUR, targets |-> {shop, bank},
         blocked |-> {bank}, sensitive |-> {deploy}, reversibleOnly |-> FALSE, quorum |-> FALSE]
guarded == [wide EXCEPT !.blocked = {}, !.max = 2, !.currency = AnyCurrency,
                        !.reversibleOnly = TRUE, !.quorum = TRUE]
MCAuthorities == {small, wide, guarded}

Sign(k, iss, a, life, delay) ==
  [key |-> k, iss |-> iss, sub |-> buyer, aud |-> NoAudience, authority |-> a,
   life |-> life, delay |-> delay]
\* The second one is addressed to another deployment, the third lives too long, and
\* the last is signed in another principal's name.
MCDelegations ==
  {Sign(oldKey, acme, small, 2, 0), [Sign(newKey, acme, guarded, 3, 1) EXCEPT !.aud = staging],
   Sign(oldKey, acme, small, 4, 0), Sign(betaKey, acme, small, 2, 0)}

Act(type, target, amount, reversible) ==
  [type |-> type, target |-> target, amount |-> amount, currency |-> USD,
   reversible |-> reversible]
Ask(p, who, action, a) == [principal |-> p, agent |-> who, action |-> action, authority |-> a]
MCIntents ==
  {Ask(acme, buyer, Act(pay, shop, 2, FALSE), small), Ask(acme, buyer, Act(pay, shop, 3, FALSE), small),
   Ask(acme, other, Act(pay, shop, 2, FALSE), small), Ask(Nobody, buyer, Act(pay, shop, 2, FALSE), small),
   Ask(beta, buyer, Act(pay, shop, 2, FALSE), small), Ask(acme, buyer, Act(pay, bank, 1, FALSE), wide),
   Ask(acme, buyer, Act(deploy, shop, 0, TRUE), guarded),
   Ask(acme, buyer, Act(deploy, bank, 0, FALSE), guarded)}

Env(acmes, mode) ==
  [source |-> (acme :> acmes) @@ (beta :> {betaKey}), mode |-> mode]
MCEnvironments == {Env({oldKey, newKey}, "required"), Env({newKey}, "required"),
                   Env({oldKey, newKey}, "invalid"), Env({oldKey, spareKey}, "optional")}
MCScreens == {{}, {"compliance.sanctions"}}
=============================================================================
