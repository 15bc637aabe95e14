----------------------------- MODULE MCSubmission -----------------------------
(***************************************************************************)
(* Small instance of Submission for TLC.                                   *)
(***************************************************************************)
EXTENDS Submission, TLC

CONSTANTS alice, bob, k1, k2, t1, t2

Plain == [key |-> NoKey, defects |-> {}, template |-> NoTemplate, channel |-> "sms",
          variables |-> {}, future |-> FALSE]
Keyed(k) == [Plain EXCEPT !.key = k]

Post(user, header, item) ==
    [kind |-> "single", token |-> user, decodes |-> TRUE, header |-> header,
     key |-> NoKey, items |-> <<item>>]
PostBatch(user, header, key, items) ==
    [kind |-> "batch", token |-> user, decodes |-> TRUE, header |-> header,
     key |-> key, items |-> items]

MCTemplate == t1 :> [channel |-> "sms", required |-> {"code"}]

MCInputs ==
    {Post(NoUser, k1, Plain),
     Post(alice, k1, [Plain EXCEPT !.defects = {"length"}]),
     Post(alice, k2, Keyed(k1)),
     Post(alice, k1, [Plain EXCEPT !.template = t1, !.variables = {"code"},
                                   !.defects = {"length"}, !.future = TRUE]),
     Post(alice, NoKey, [Plain EXCEPT !.template = t2]),
     Post(bob, NoKey, Keyed(k1)),
     PostBatch(alice, k1, NoKey, <<Keyed(k1), Keyed(k2)>>),
     PostBatch(alice, NoKey, NoKey, <<Keyed(k2), Keyed(k1)>>),
     PostBatch(alice, NoKey, k1, <<Keyed(k1), Keyed(k1)>>),
     PostBatch(alice, k2, NoKey, <<Plain, Plain, Plain>>)}
=============================================================================
