---- MODULE ValidatorProofs ----
(***************************************************************************)
(* ValidatorScenarios for any fields, any number of edits and any of the   *)
(* scenarios: what the refusals rest on, what a positive result and the    *)
(* evaluation of an edit are worth, and which keys are left behind.        *)
(***************************************************************************)
EXTENDS ValidatorScenarios, FiniteSetTheorems, TLAPS

Instr(i) == Script(case.scenario)[i]
Length == Len(Script(case.scenario))
Staking == {"create", "edit", "delegate", "undelegate"}
Others == Roles \ {"shared"}
Facts == {"receipt", "report", "balance"}
Sendings == [op : Staking, who : Roles, signer : Roles, blame : Roles, bls : BLSKeys,
             weighs : SUBSET Facts, asked : BOOLEAN, needed : BOOLEAN]

\* Instruction i of the script: a new account, or a staking transaction.
Funds(i, who) == Instr(i).op = "fund" /\ Instr(i).who = who
Is(r, op, who, signer, bls) ==
    r \in Sendings /\ r.op = op /\ r.who = who /\ r.signer = signer /\ r.bls = bls
Sends(i, op, who, signer, bls) == Is(Instr(i), op, who, signer, bls)
Counts(i) == "receipt" \in Instr(i).weighs

LEMMA SendFields ==
    ASSUME NEW op \in Staking, NEW who \in Roles, NEW signer \in Roles, NEW blame \in Roles
    PROVE  /\ Is(Send(op, who, signer, blame), op, who, signer, "first")
           /\ "receipt" \in Send(op, who, signer, blame).weighs /\ ~Send(op, who, signer, blame).needed
BY DEF Is, Send, Sendings, Staking, BLSKeys, Facts

LEMMA SendMarked ==
    ASSUME NEW r, NEW op, NEW who, NEW signer, NEW bls, Is(r, op, who, signer, bls)
    PROVE  /\ Is(Balanced(r), op, who, signer, bls)
           /\ Balanced(r).weighs = r.weighs \cup {"balance"} /\ Balanced(r).needed = r.needed
           /\ Is(Needed(r), op, who, signer, bls) /\ Needed(r).weighs = r.weighs
           /\ Is(Asked(r), op, who, signer, bls) /\ Asked(r).weighs = r.weighs
           /\ Asked(r).needed = r.needed
BY DEF Is, Balanced, Needed, Asked, Sendings, Facts

LEMMA FundFields ==
    ASSUME NEW who, NEW blame
    PROVE  /\ Fund(who).op = "fund" /\ Fund(who).who = who
           /\ FundBlaming(who, blame).op = "fund" /\ FundBlaming(who, blame).who = who
BY DEF Fund, FundBlaming

\* The instructions of the scripts, one by one.
LEMMA Instructions ==
    /\ case.scenario = "create" =>
          /\ Length = 2
          /\ Instr(1) = Fund("validator")
          /\ Instr(2) = Balanced(Create("validator", "validator"))
    /\ case.scenario = "create_exists" =>
          /\ Length = 3
          /\ Instr(1) = Fund("validator")
          /\ Instr(2) = Asked(Balanced(Create("validator", "validator")))
          /\ Instr(3) = [Create("validator", "validator") EXCEPT !.bls = "second"]
    /\ case.scenario = "create_bls" =>
          /\ Length = 4
          /\ Instr(1) = Fund("validator")
          /\ Instr(2) = Needed(Create("validator", "validator"))
          /\ Instr(3) = Fund("duplicate")
          /\ Instr(4) = Send("create", "duplicate", "duplicate", "validator")
    /\ case.scenario = "create_invalid" =>
          /\ Length = 3
          /\ Instr(1) = Fund("sender")
          /\ Instr(2) = Fund("validator")
          /\ Instr(3) = Balanced(Create("sender", "sender"))
    /\ case.scenario = "edit" =>
          /\ Length = 3
          /\ Instr(1) = Fund("validator")
          /\ Instr(2) = [Needed(Create("validator", "validator")) EXCEPT !.weighs = {"report"}]
          /\ Instr(3) = [op |-> "edits"]
    /\ case.scenario = "edit_invalid" =>
          /\ Length = 4
          /\ Instr(1) = Fund("validator")
          /\ Instr(2) = [Needed(Create("validator", "validator")) EXCEPT !.weighs = {"report"}]
          /\ Instr(3) = FundBlaming("sender", TheValidator)
          /\ Instr(4) = Send("edit", TheValidator, "sender", TheValidator)
    /\ case.scenario = "edit_missing" =>
          /\ Length = 2
          /\ Instr(1) = Fund("validator")
          /\ Instr(2) = Send("edit", "validator", "validator", "validator")
    /\ case.scenario = "delegate_invalid" =>
          /\ Length = 5
          /\ Instr(1) = Fund("validator")
          /\ Instr(2) = Fund("delegator")
          /\ Instr(3) = Fund("sender")
          /\ Instr(4) = Needed(Balanced(Create("sender", "validator")))
          /\ Instr(5) = Send("delegate", "delegator", "sender", "validator")
    /\ case.scenario = "undelegate_invalid" =>
          /\ Length = 6
          /\ Instr(1) = Fund("validator")
          /\ Instr(2) = Fund("delegator")
          /\ Instr(3) = Fund("sender")
          /\ Instr(4) = Needed(Asked(Balanced(Create("sender", "validator"))))
          /\ Instr(5) = Needed(Send("delegate", "delegator", "delegator", "validator"))
          /\ Instr(6) = Send("undelegate", "delegator", "sender", "validator")
    /\ case.scenario = "delegate_missing" =>
          /\ Length = 3
          /\ Instr(1) = Fund("validator")
          /\ Instr(2) = Fund("delegator")
          /\ Instr(3) = Send("delegate", "delegator", "delegator", "validator")
    /\ case.scenario = "undelegate_missing" =>
          /\ Length = 3
          /\ Instr(1) = Fund("validator")
          /\ Instr(2) = Fund("delegator")
          /\ Instr(3) = Send("undelegate", "delegator", "delegator", "validator")
<1>1. case.scenario = "create" =>
          /\ Length = 2
          /\ Instr(1) = Fund("validator")
          /\ Instr(2) = Balanced(Create("validator", "validator"))
    BY DEF Instr, Length, Script
<1>2. case.scenario = "create_exists" =>
          /\ Length = 3
          /\ Instr(1) = Fund("validator")
          /\ Instr(2) = Asked(Balanced(Create("validator", "validator")))
          /\ Instr(3) = [Create("validator", "validator") EXCEPT !.bls = "second"]
    BY DEF Instr, Length, Script
<1>3. case.scenario = "create_bls" =>
          /\ Length = 4
          /\ Instr(1) = Fund("validator")
          /\ Instr(2) = Needed(Create("validator", "validator"))
          /\ Instr(3) = Fund("duplicate")
          /\ Instr(4) = Send("create", "duplicate", "duplicate", "validator")
    BY DEF Instr, Length, Script
<1>4. case.scenario = "create_invalid" =>
          /\ Length = 3
          /\ Instr(1) = Fund("sender")
          /\ Instr(2) = Fund("validator")
          /\ Instr(3) = Balanced(Create("sender", "sender"))
    BY DEF Instr, Length, Script
<1>5. case.scenario = "edit" =>
          /\ Length = 3
          /\ Instr(1) = Fund("validator")
          /\ Instr(2) = [Needed(Create("validator", "validator")) EXCEPT !.weighs = {"report"}]
          /\ Instr(3) = [op |-> "edits"]
    BY DEF Instr, Length, Script, CreateForEdit
<1>6. case.scenario = "edit_invalid" =>
          /\ Length = 4
          /\ Instr(1) = Fund("validator")
          /\ Instr(2) = [Needed(Create("validator", "validator")) EXCEPT !.weighs = {"report"}]
          /\ Instr(3) = FundBlaming("sender", TheValidator)
          /\ Instr(4) = Send("edit", TheValidator, "sender", TheValidator)
    BY DEF Instr, Length, Script, CreateForEdit
<1>7. case.scenario = "edit_missing" =>
          /\ Length = 2
          /\ Instr(1) = Fund("validator")
          /\ Instr(2) = Send("edit", "validator", "validator", "validator")
    BY DEF Instr, Length, Script
<1>8. case.scenario = "delegate_invalid" =>
          /\ Length = 5
          /\ Instr(1) = Fund("validator")
          /\ Instr(2) = Fund("delegator")
          /\ Instr(3) = Fund("sender")
          /\ Instr(4) = Needed(Balanced(Create("sender", "validator")))
          /\ Instr(5) = Send("delegate", "delegator", "sender", "validator")
    BY DEF Instr, Length, Script, ThreeAccounts
<1>9. case.scenario = "undelegate_invalid" =>
          /\ Length = 6
          /\ Instr(1) = Fund("validator")
          /\ Instr(2) = Fund("delegator")
          /\ Instr(3) = Fund("sender")
          /\ Instr(4) = Needed(Asked(Balanced(Create("sender", "validator"))))
          /\ Instr(5) = Needed(Send("delegate", "delegator", "delegator", "validator"))
          /\ Instr(6) = Send("undelegate", "delegator", "sender", "validator")
    BY DEF Instr, Length, Script, ThreeAccounts
<1>10. case.scenario = "delegate_missing" =>
          /\ Length = 3
          /\ Instr(1) = Fund("validator")
          /\ Instr(2) = Fund("delegator")
          /\ Instr(3) = Send("delegate", "delegator", "delegator", "validator")
    BY DEF Instr, Length, Script
<1>11. case.scenario = "undelegate_missing" =>
          /\ Length = 3
          /\ Instr(1) = Fund("validator")
          /\ Instr(2) = Fund("delegator")
          /\ Instr(3) = Send("undelegate", "delegator", "delegator", "validator")
    BY DEF Instr, Length, Script
<1> QED BY <1>1, <1>2, <1>3, <1>4, <1>5, <1>6, <1>7, <1>8, <1>9, <1>10, <1>11

\* The scripts, one by one: the accounts they generate, and their transactions.
LEMMA Scripts ==
    /\ case.scenario = "create" => 
          /\ Length = 2 /\ Funds(1, "validator") 
          /\ Sends(2, "create", "validator", "validator", "first") /\ Counts(2) /\ ~Instr(2).needed
    /\ case.scenario = "create_exists" =>
          /\ Length = 3 /\ Funds(1, "validator")
          /\ Sends(2, "create", "validator", "validator", "first") /\ Counts(2) /\ ~Instr(2).needed
          /\ Sends(3, "create", "validator", "validator", "second") /\ Counts(3) /\ ~Instr(3).needed
    /\ case.scenario = "create_bls" =>
          /\ Length = 4 /\ Funds(1, "validator") /\ Funds(3, "duplicate")
          /\ Sends(2, "create", "validator", "validator", "first") /\ Counts(2)
          /\ Sends(4, "create", "duplicate", "duplicate", "first") /\ Counts(4) /\ ~Instr(4).needed
    /\ case.scenario = "create_invalid" =>
          /\ Length = 3 /\ Funds(1, "sender") /\ Funds(2, "validator")
          /\ Sends(3, "create", "validator", "sender", "first") /\ Counts(3) /\ ~Instr(3).needed
    /\ case.scenario = "edit" =>
          /\ Length = 3 /\ Funds(1, "validator")
          /\ Sends(2, "create", "validator", "validator", "first") /\ ~Counts(2)
          /\ Instr(3).op = "edits"
    /\ case.scenario = "edit_invalid" =>
          /\ Length = 4 /\ Funds(1, "validator") /\ Funds(3, "sender")
          /\ Sends(2, "create", "validator", "validator", "first") /\ ~Counts(2)
          /\ Sends(4, "edit", TheValidator, "sender", "first") /\ Counts(4) /\ ~Instr(4).needed
    /\ case.scenario = "edit_missing" =>
          /\ Length = 2 /\ Funds(1, "validator")
          /\ Sends(2, "edit", "validator", "validator", "first") /\ Counts(2) /\ ~Instr(2).needed
    /\ case.scenario = "delegate_invalid" =>
          /\ Length = 5 /\ Funds(1, "validator") /\ Funds(2, "delegator") /\ Funds(3, "sender")
          /\ Sends(4, "create", "validator", "sender", "first")
          /\ Sends(5, "delegate", "delegator", "sender", "first") /\ Counts(5) /\ ~Instr(5).needed
    /\ case.scenario = "undelegate_invalid" =>
          /\ Length = 6 /\ Funds(1, "validator") /\ Funds(2, "delegator") /\ Funds(3, "sender")
          /\ Sends(4, "create", "validator", "sender", "first")
          /\ Sends(5, "delegate", "delegator", "delegator", "first")
          /\ Sends(6, "undelegate", "delegator", "sender", "first") /\ Counts(6) /\ ~Instr(6).needed
    /\ case.scenario = "delegate_missing" =>
          /\ Length = 3 /\ Funds(1, "validator") /\ Funds(2, "delegator")
          /\ Sends(3, "delegate", "delegator", "delegator", "first") /\ Counts(3) /\ ~Instr(3).needed
    /\ case.scenario = "undelegate_missing" =>
          /\ Length = 3 /\ Funds(1, "validator") /\ Funds(2, "delegator")
          /\ Sends(3, "undelegate", "delegator", "delegator", "first") /\ Counts(3) /\ ~Instr(3).needed
<1>1. /\ "validator" \in Roles /\ "delegator" \in Roles /\ "sender" \in Roles /\ "duplicate" \in Roles
      /\ TheValidator \in Roles
      /\ "create" \in Staking /\ "edit" \in Staking /\ "delegate" \in Staking /\ "undelegate" \in Staking
    BY DEF Roles, Staking, TheValidator
<1> DEFINE ByValidator == Create("validator", "validator")
           BySender(blame) == Create("sender", blame)
           SecondKey == [ByValidator EXCEPT !.bls = "second"]
           ForEdit == [Needed(ByValidator) EXCEPT !.weighs = {"report"}]
<1>2. /\ Is(ByValidator, "create", "validator", "validator", "first")
      /\ "receipt" \in ByValidator.weighs /\ ~ByValidator.needed
    BY <1>1, SendFields DEF Create
<1>3. /\ Is(SecondKey, "create", "validator", "validator", "second")
      /\ "receipt" \in SecondKey.weighs /\ ~SecondKey.needed
    BY <1>2 DEF Is, Sendings, BLSKeys
<1>4. Is(ForEdit, "create", "validator", "validator", "first") /\ "receipt" \notin ForEdit.weighs
    BY <1>2, SendMarked DEF Is, Sendings, Facts
<1>5. ASSUME NEW blame \in Roles
      PROVE  /\ Is(BySender(blame), "create", "validator", "sender", "first")
             /\ "receipt" \in BySender(blame).weighs /\ ~BySender(blame).needed
    BY <1>1, SendFields DEF Create
<1> HIDE DEF ByValidator, BySender, SecondKey, ForEdit
<1>6. /\ Is(Balanced(ByValidator), "create", "validator", "validator", "first")
      /\ "receipt" \in Balanced(ByValidator).weighs /\ ~Balanced(ByValidator).needed
      /\ Is(Needed(ByValidator), "create", "validator", "validator", "first")
      /\ "receipt" \in Needed(ByValidator).weighs
    BY <1>2, SendMarked
<1>7. /\ Is(Asked(Balanced(ByValidator)), "create", "validator", "validator", "first")
      /\ "receipt" \in Asked(Balanced(ByValidator)).weighs /\ ~Asked(Balanced(ByValidator)).needed
    BY <1>6, SendMarked
<1>8. /\ Is(Balanced(BySender("sender")), "create", "validator", "sender", "first")
      /\ "receipt" \in Balanced(BySender("sender")).weighs /\ ~Balanced(BySender("sender")).needed
      /\ Is(Balanced(BySender("validator")), "create", "validator", "sender", "first")
    BY <1>1, <1>5, SendMarked
<1>9. /\ Is(Needed(Balanced(BySender("validator"))), "create", "validator", "sender", "first")
      /\ Is(Asked(Balanced(BySender("validator"))), "create", "validator", "sender", "first")
    BY <1>8, SendMarked
<1>10. Is(Needed(Asked(Balanced(BySender("validator")))), "create", "validator", "sender", "first")
    BY <1>9, SendMarked
<1>11. ASSUME NEW op \in Staking, NEW who \in Roles, NEW signer \in Roles, NEW blame \in Roles
       PROVE  Is(Needed(Send(op, who, signer, blame)), op, who, signer, "first")
    BY SendFields, SendMarked
<1>12. /\ Fund("validator").op = "fund" /\ Fund("validator").who = "validator"
      /\ Fund("delegator").op = "fund" /\ Fund("delegator").who = "delegator"
      /\ Fund("sender").op = "fund" /\ Fund("sender").who = "sender"
      /\ Fund("duplicate").op = "fund" /\ Fund("duplicate").who = "duplicate"
      /\ FundBlaming("sender", TheValidator).op = "fund" /\ FundBlaming("sender", TheValidator).who = "sender"
    BY FundFields
<1>13. ASSUME case.scenario = "create"
      PROVE  /\ Length = 2 /\ Funds(1, "validator") 
             /\ Sends(2, "create", "validator", "validator", "first") /\ Counts(2) /\ ~Instr(2).needed
    <2>1. /\ Length = 2
          /\ Instr(1) = Fund("validator")
          /\ Instr(2) = Balanced(ByValidator)
        BY <1>13, Instructions DEF ByValidator, BySender, SecondKey, ForEdit
    <2> QED BY <1>12, <1>6, <2>1 DEF Funds, Sends, Counts
<1>14. ASSUME case.scenario = "create_exists"
      PROVE  /\ Length = 3 /\ Funds(1, "validator")
             /\ Sends(2, "create", "validator", "validator", "first") /\ Counts(2) /\ ~Instr(2).needed
             /\ Sends(3, "create", "validator", "validator", "second") /\ Counts(3) /\ ~Instr(3).needed
    <2>1. /\ Length = 3
          /\ Instr(1) = Fund("validator")
          /\ Instr(2) = Asked(Balanced(ByValidator))
          /\ Instr(3) = SecondKey
        BY <1>14, Instructions DEF ByValidator, BySender, SecondKey, ForEdit
    <2> QED BY <1>12, <1>3, <1>7, <2>1 DEF Funds, Sends, Counts
<1>15. ASSUME case.scenario = "create_bls"
      PROVE  /\ Length = 4 /\ Funds(1, "validator") /\ Funds(3, "duplicate")
             /\ Sends(2, "create", "validator", "validator", "first") /\ Counts(2)
             /\ Sends(4, "create", "duplicate", "duplicate", "first") /\ Counts(4) /\ ~Instr(4).needed
    <2>1. /\ Length = 4
          /\ Instr(1) = Fund("validator")
          /\ Instr(2) = Needed(ByValidator)
          /\ Instr(3) = Fund("duplicate")
          /\ Instr(4) = Send("create", "duplicate", "duplicate", "validator")
        BY <1>15, Instructions DEF ByValidator, BySender, SecondKey, ForEdit
    <2>2. /\ Is(Send("create", "duplicate", "duplicate", "validator"), "create", "duplicate", "duplicate", "first")
          /\ "receipt" \in Send("create", "duplicate", "duplicate", "validator").weighs /\ ~Send("create", "duplicate", "duplicate", "validator").needed
        BY <1>1, SendFields
    <2> QED BY <1>12, <1>6, <2>1, <2>2 DEF Funds, Sends, Counts
<1>16. ASSUME case.scenario = "create_invalid"
      PROVE  /\ Length = 3 /\ Funds(1, "sender") /\ Funds(2, "validator")
             /\ Sends(3, "create", "validator", "sender", "first") /\ Counts(3) /\ ~Instr(3).needed
    <2>1. /\ Length = 3
          /\ Instr(1) = Fund("sender")
          /\ Instr(2) = Fund("validator")
          /\ Instr(3) = Balanced(BySender("sender"))
        BY <1>16, Instructions DEF ByValidator, BySender, SecondKey, ForEdit
    <2> QED BY <1>12, <1>8, <2>1 DEF Funds, Sends, Counts
<1>17. ASSUME case.scenario = "edit"
      PROVE  /\ Length = 3 /\ Funds(1, "validator")
             /\ Sends(2, "create", "validator", "validator", "first") /\ ~Counts(2)
             /\ Instr(3).op = "edits"
    <2>1. /\ Length = 3
          /\ Instr(1) = Fund("validator")
          /\ Instr(2) = ForEdit
          /\ Instr(3) = [op |-> "edits"]
        BY <1>17, Instructions DEF ByValidator, BySender, SecondKey, ForEdit
    <2> QED BY <1>12, <1>4, <2>1 DEF Funds, Sends, Counts
<1>18. ASSUME case.scenario = "edit_invalid"
      PROVE  /\ Length = 4 /\ Funds(1, "validator") /\ Funds(3, "sender")
             /\ Sends(2, "create", "validator", "validator", "first") /\ ~Counts(2)
             /\ Sends(4, "edit", TheValidator, "sender", "first") /\ Counts(4) /\ ~Instr(4).needed
    <2>1. /\ Length = 4
          /\ Instr(1) = Fund("validator")
          /\ Instr(2) = ForEdit
          /\ Instr(3) = FundBlaming("sender", TheValidator)
          /\ Instr(4) = Send("edit", TheValidator, "sender", TheValidator)
        BY <1>18, Instructions DEF ByValidator, BySender, SecondKey, ForEdit
    <2>2. /\ Is(Send("edit", TheValidator, "sender", TheValidator), "edit", TheValidator, "sender", "first")
          /\ "receipt" \in Send("edit", TheValidator, "sender", TheValidator).weighs /\ ~Send("edit", TheValidator, "sender", TheValidator).needed
        BY <1>1, SendFields
    <2> QED BY <1>12, <1>4, <2>1, <2>2 DEF Funds, Sends, Counts
<1>19. ASSUME case.scenario = "edit_missing"
      PROVE  /\ Length = 2 /\ Funds(1, "validator")
             /\ Sends(2, "edit", "validator", "validator", "first") /\ Counts(2) /\ ~Instr(2).needed
    <2>1. /\ Length = 2
          /\ Instr(1) = Fund("validator")
          /\ Instr(2) = Send("edit", "validator", "validator", "validator")
        BY <1>19, Instructions DEF ByValidator, BySender, SecondKey, ForEdit
    <2>2. /\ Is(Send("edit", "validator", "validator", "validator"), "edit", "validator", "validator", "first")
          /\ "receipt" \in Send("edit", "validator", "validator", "validator").weighs /\ ~Send("edit", "validator", "validator", "validator").needed
        BY <1>1, SendFields
    <2> QED BY <1>12, <2>1, <2>2 DEF Funds, Sends, Counts
<1>20. ASSUME case.scenario = "delegate_invalid"
      PROVE  /\ Length = 5 /\ Funds(1, "validator") /\ Funds(2, "delegator") /\ Funds(3, "sender")
             /\ Sends(4, "create", "validator", "sender", "first")
             /\ Sends(5, "delegate", "delegator", "sender", "first") /\ Counts(5) /\ ~Instr(5).needed
    <2>1. /\ Length = 5
          /\ Instr(1) = Fund("validator")
          /\ Instr(2) = Fund("delegator")
          /\ Instr(3) = Fund("sender")
          /\ Instr(4) = Needed(Balanced(BySender("validator")))
          /\ Instr(5) = Send("delegate", "delegator", "sender", "validator")
        BY <1>20, Instructions DEF ByValidator, BySender, SecondKey, ForEdit
    <2>2. /\ Is(Send("delegate", "delegator", "sender", "validator"), "delegate", "delegator", "sender", "first")
          /\ "receipt" \in Send("delegate", "delegator", "sender", "validator").weighs /\ ~Send("delegate", "delegator", "sender", "validator").needed
        BY <1>1, SendFields
    <2> QED BY <1>12, <1>9, <2>1, <2>2 DEF Funds, Sends, Counts
<1>21. ASSUME case.scenario = "undelegate_invalid"
      PROVE  /\ Length = 6 /\ Funds(1, "validator") /\ Funds(2, "delegator") /\ Funds(3, "sender")
             /\ Sends(4, "create", "validator", "sender", "first")
             /\ Sends(5, "delegate", "delegator", "delegator", "first")
             /\ Sends(6, "undelegate", "delegator", "sender", "first") /\ Counts(6) /\ ~Instr(6).needed
    <2>1. /\ Length = 6
          /\ Instr(1) = Fund("validator")
          /\ Instr(2) = Fund("delegator")
          /\ Instr(3) = Fund("sender")
          /\ Instr(4) = Needed(Asked(Balanced(BySender("validator"))))
          /\ Instr(5) = Needed(Send("delegate", "delegator", "delegator", "validator"))
          /\ Instr(6) = Send("undelegate", "delegator", "sender", "validator")
        BY <1>21, Instructions DEF ByValidator, BySender, SecondKey, ForEdit
    <2>2. /\ Is(Send("undelegate", "delegator", "sender", "validator"), "undelegate", "delegator", "sender", "first")
          /\ "receipt" \in Send("undelegate", "delegator", "sender", "validator").weighs /\ ~Send("undelegate", "delegator", "sender", "validator").needed
        BY <1>1, SendFields
    <2>3. Is(Needed(Send("delegate", "delegator", "delegator", "validator")), "delegate", "delegator", "delegator", "first")
        BY <1>1, <1>11
    <2> QED BY <1>12, <1>10, <2>1, <2>2, <2>3 DEF Funds, Sends, Counts
<1>22. ASSUME case.scenario = "delegate_missing"
      PROVE  /\ Length = 3 /\ Funds(1, "validator") /\ Funds(2, "delegator")
             /\ Sends(3, "delegate", "delegator", "delegator", "first") /\ Counts(3) /\ ~Instr(3).needed
    <2>1. /\ Length = 3
          /\ Instr(1) = Fund("validator")
          /\ Instr(2) = Fund("delegator")
          /\ Instr(3) = Send("delegate", "delegator", "delegator", "validator")
        BY <1>22, Instructions DEF ByValidator, BySender, SecondKey, ForEdit
    <2>2. /\ Is(Send("delegate", "delegator", "delegator", "validator"), "delegate", "delegator", "delegator", "first")
          /\ "receipt" \in Send("delegate", "delegator", "delegator", "validator").weighs /\ ~Send("delegate", "delegator", "delegator", "validator").needed
        BY <1>1, SendFields
    <2> QED BY <1>12, <2>1, <2>2 DEF Funds, Sends, Counts
<1>23. ASSUME case.scenario = "undelegate_missing"
      PROVE  /\ Length = 3 /\ Funds(1, "validator") /\ Funds(2, "delegator")
             /\ Sends(3, "undelegate", "delegator", "delegator", "first") /\ Counts(3) /\ ~Instr(3).needed
    <2>1. /\ Length = 3
          /\ Instr(1) = Fund("validator")
          /\ Instr(2) = Fund("delegator")
          /\ Instr(3) = Send("undelegate", "delegator", "delegator", "validator")
        BY <1>23, Instructions DEF ByValidator, BySender, SecondKey, ForEdit
    <2>2. /\ Is(Send("undelegate", "delegator", "delegator", "validator"), "undelegate", "delegator", "delegator", "first")
          /\ "receipt" \in Send("undelegate", "delegator", "delegator", "validator").weighs /\ ~Send("undelegate", "delegator", "delegator", "validator").needed
        BY <1>1, SendFields
    <2> QED BY <1>12, <2>1, <2>2 DEF Funds, Sends, Counts
<1> QED BY <1>13, <1>14, <1>15, <1>16, <1>17, <1>18, <1>19, <1>20, <1>21, <1>22, <1>23

\* What all scripts have in common: transactions come last, and only the edit
\* scenario has an edit loop.
LEMMA Steps ==
    ASSUME case \in Case
    PROVE  /\ Length \in 2 .. 6
           /\ case.scenario \in {"edit", "edit_invalid"} => Length >= 3
           /\ \A i \in 1 .. Length :
                 \/ i # Length /\ Instr(i).op = "fund" /\ Instr(i).who \in Others
                 \/ Instr(i).op \in Staking /\ Instr(i) \in Sendings
                 \/ Instr(i).op = "edits" /\ i = Length /\ case.scenario = "edit"
<1>1. case.scenario \in AllScenarios
    BY ValidatorScenariosAssumption DEF Case
<1>2. /\ "create" \in Staking /\ "edit" \in Staking /\ "delegate" \in Staking /\ "undelegate" \in Staking
      /\ "validator" \in Others /\ "delegator" \in Others /\ "sender" \in Others /\ "duplicate" \in Others
    BY DEF Staking, Others, Roles
<1>3. CASE case.scenario \in {"create", "edit_missing"}
    BY <1>2, <1>3, Scripts DEF Funds, Sends, Is
<1>4. CASE case.scenario \in {"create_exists", "create_invalid", "edit"}
    BY <1>2, <1>4, Scripts DEF Funds, Sends, Is
<1>5. CASE case.scenario \in {"delegate_missing", "undelegate_missing"}
    BY <1>2, <1>5, Scripts DEF Funds, Sends, Is
<1>6. CASE case.scenario \in {"create_bls", "edit_invalid"}
    BY <1>2, <1>6, Scripts DEF Funds, Sends, Is
<1>7. CASE case.scenario = "delegate_invalid"
    BY <1>2, <1>7, Scripts DEF Funds, Sends, Is
<1>8. CASE case.scenario = "undelegate_invalid"
    BY <1>2, <1>8, Scripts DEF Funds, Sends, Is
<1> QED BY <1>1, <1>3, <1>4, <1>5, <1>6, <1>7, <1>8 DEF AllScenarios, Refusals

\* A test case is about the same scenario from its start to its end.
Keeps == case'.scenario = case.scenario /\ case'.reuse = case.reuse /\ case'.shared = case.shared

LEMMA Kept ==
    ASSUME Keeps
    PROVE  /\ TheValidator' = TheValidator /\ Length' = Length
           /\ \A i : Instr(i)' = Instr(i)
BY DEF Keeps, TheValidator, Length, Instr, Script, CreateForEdit

CaseInv ==
    /\ case \in Case /\ case.step <= Length
    /\ case.pc = "answer" => Instr(case.step).op \in Staking

First == IF case.scenario \in {"edit", "edit_invalid"} /\ TheValidator = "shared" THEN 3 ELSE 1

LEMMA Erred ==
    ASSUME CaseInv, case' = [case EXCEPT !.pc = "over", !.error = TRUE, !.result = FALSE]
    PROVE  CaseInv' /\ Keeps /\ case'.pc = "over" /\ case'.error /\ ~case'.result
<1>1. case' \in Case /\ Keeps /\ case'.pc = "over" /\ case'.error /\ ~case'.result /\ case'.step = case.step
    BY DEF CaseInv, Case, CasePC, Keeps
<1> QED BY <1>1, Kept DEF CaseInv

LEMMA Advanced ==
    ASSUME CaseInv, NEW ok \in BOOLEAN, NEW needed \in BOOLEAN, Advance(ok, needed),
           case.pc \in {"step", "answer"}
    PROVE  /\ CaseInv' /\ Keeps /\ case'.error = case.error
           /\ \/ /\ case'.pc = "teardown" /\ case'.step = case.step
                 /\ case'.skipped = (case.step # Length)
                 /\ case'.skipped => needed /\ ~ok
                 /\ case'.result => case.step = Length /\ case.earned /\ ok
              \/ /\ case'.pc = "step" /\ case.step # Length /\ case'.step = case.step + 1
                 /\ case'.earned => case.earned /\ ok
                 /\ case'.result = case.result /\ case'.skipped = case.skipped
<1>0. /\ case \in Case /\ case.step <= Length /\ case.step \in 1 .. 6 /\ Length \in 2 .. 6
      /\ LastStep = (case.step = Length)
    BY Steps DEF CaseInv, Case, LastStep, Length
<1> DEFINE last == case.step = Length
           skipped == ~last
           result == last /\ case.earned /\ ok
           earned == case.earned /\ ok
<1>1. /\ skipped \in BOOLEAN /\ result \in BOOLEAN /\ earned \in BOOLEAN /\ last \in BOOLEAN
      /\ skipped = (case.step # Length)
      /\ (result => case.step = Length /\ case.earned /\ ok) /\ (earned => case.earned /\ ok)
      /\ (last <=> case.step = Length)
    OBVIOUS
<1>2. case' = IF last \/ (needed /\ ~ ok)
              THEN [case EXCEPT !.pc = "teardown", !.skipped = skipped, !.result = result]
              ELSE [case EXCEPT !.pc = "step", !.step = @ + 1, !.earned = earned]
    BY DEF Advance, LastStep, Length
<1> HIDE DEF last, skipped, result, earned
<1>3. CASE last \/ (needed /\ ~ok)
    <2>1. /\ case' \in Case /\ Keeps /\ case'.error = case.error /\ case'.pc = "teardown"
          /\ case'.step = case.step /\ case'.skipped = skipped /\ case'.result = result
        BY <1>0, <1>1, <1>2, <1>3 DEF Case, CasePC, Keeps
    <2> QED BY <1>0, <1>1, <1>3, <2>1, Kept DEF CaseInv
<1>4. CASE ~(last \/ (needed /\ ~ok))
    <2>1. case.step + 1 \in 1 .. 6 /\ case.step + 1 <= Length
        BY <1>0, <1>1, <1>4
    <2>2. /\ case' \in Case /\ Keeps /\ case'.error = case.error /\ case'.pc = "step"
          /\ case'.step = case.step + 1 /\ case'.earned = earned /\ case'.result = case.result
          /\ case'.skipped = case.skipped
        BY <1>0, <1>1, <1>2, <1>4, <2>1 DEF Case, CasePC, Keeps
    <2> QED BY <1>0, <1>1, <1>4, <2>1, <2>2, Kept DEF CaseInv
<1> QED BY <1>3, <1>4

LEMMA CheckFundingFacts ==
    ASSUME CaseInv, CheckFunding
    PROVE  /\ CaseInv' /\ Keeps /\ UNCHANGED <<editVars, chainVars>> /\ case.pc = "funding"
           /\ \/ case'.pc = "over" /\ case'.error /\ ~case'.result /\ held' = held \ {"nobody"}
              \/ /\ case'.pc = "step" /\ case'.step = First /\ UNCHANGED held
                 /\ case'.result = case.result /\ case'.earned = case.earned /\ case'.error = case.error
<1>1. case.pc = "funding" /\ UNCHANGED <<editVars, chainVars>>
    BY DEF CheckFunding, At
<1>2. CASE HandleError("nobody")
    BY <1>1, <1>2, Erred DEF HandleError
<1>3. CASE case' = [case EXCEPT !.pc = "step", !.step = First] /\ UNCHANGED held
    <2>1. First \in 1 .. 6 /\ First <= Length
        BY Steps DEF First, CaseInv
    <2>2. /\ case' \in Case /\ Keeps /\ case'.pc = "step" /\ case'.step = First
          /\ case'.result = case.result /\ case'.earned = case.earned /\ case'.error = case.error
        BY <1>3, <2>1 DEF CaseInv, Case, CasePC, Keeps
    <2> QED BY <1>1, <1>3, <2>1, <2>2, Kept DEF CaseInv
<1> QED BY <1>2, <1>3 DEF CheckFunding, First

LEMMA GenerateAccountFacts ==
    ASSUME CaseInv, GenerateAccount
    PROVE  /\ CaseInv' /\ Keeps /\ UNCHANGED <<editVars, chainVars>>
           /\ case.pc = "step" /\ Instr(case.step).op = "fund" /\ case.step # Length
           /\ \/ case'.pc = "over" /\ case'.error /\ ~case'.result
              \/ /\ case'.pc = "step" /\ case'.step = case.step + 1
                 /\ held' = held \cup {Instr(case.step).who} /\ Instr(case.step).who \in Others
                 /\ case'.earned => case.earned
                 /\ case'.result = case.result /\ case'.error = case.error
<1>1. /\ case.pc = "step" /\ UNCHANGED <<editVars, chainVars>> /\ Instr(case.step).op = "fund"
      /\ Instruction = Instr(case.step)
    BY DEF GenerateAccount, At, Instruction, Instr
<1>2. case.step \in 1 .. Length
    BY Steps DEF CaseInv, Case
<1>3. case.step # Length /\ Instr(case.step).who \in Others
    BY <1>1, <1>2, Steps DEF CaseInv, Staking
<1>4. CASE held' = held \cup {Instruction.who} /\ Advance(TRUE, FALSE)
    BY <1>1, <1>3, <1>4, Advanced
<1>5. CASE case' = [case EXCEPT !.pc = "over", !.error = TRUE, !.result = FALSE]
    BY <1>1, <1>3, <1>5, Erred
<1> QED BY <1>4, <1>5 DEF GenerateAccount

LEMMA SendTransactionFacts ==
    ASSUME CaseInv, SendTransaction
    PROVE  /\ CaseInv' /\ Keeps /\ UNCHANGED <<editVars, validators, delegated, mined>>
           /\ case.pc = "step" /\ case.step \in 1 .. Length /\ Instr(case.step).op \in Staking
           /\ pending' \in {pending, pending \cup {ThisTx}}
           /\ \/ case'.pc = "over" /\ case'.error /\ ~case'.result
              \/ /\ case'.pc = "answer" /\ case'.step = case.step /\ UNCHANGED held
                 /\ case'.earned = case.earned
                 /\ case'.result = case.result /\ case'.error = case.error
<1>1. /\ case.pc = "step" /\ UNCHANGED <<editVars, validators, delegated, mined>>
      /\ Instr(case.step).op \notin {"fund", "edits"} /\ pending' \in {pending, pending \cup {ThisTx}}
    BY DEF SendTransaction, At, Instruction, Instr
<1>2. case.step \in 1 .. Length
    BY Steps DEF CaseInv, Case
<1>3. Instr(case.step).op \in Staking
    BY <1>1, <1>2, Steps DEF CaseInv
<1>4. CASE case' = [case EXCEPT !.pc = "answer"] /\ UNCHANGED held
    <2>1. /\ case' \in Case /\ Keeps /\ case'.pc = "answer" /\ case'.step = case.step
          /\ case'.earned = case.earned /\ case'.result = case.result /\ case'.error = case.error
        BY <1>4 DEF CaseInv, Case, CasePC, Keeps
    <2> QED BY <1>1, <1>2, <1>3, <1>4, <2>1, Kept DEF CaseInv
<1>5. CASE HandleError(Instruction.blame)
    BY <1>1, <1>2, <1>3, <1>5, Erred DEF HandleError
<1> QED BY <1>4, <1>5 DEF SendTransaction

LEMMA AnswerTransactionFacts ==
    ASSUME CaseInv, AnswerTransaction
    PROVE  /\ CaseInv' /\ Keeps /\ UNCHANGED <<editVars, chainVars>>
           /\ case.pc = "answer" /\ case.step \in 1 .. Length /\ Instr(case.step).op \in Staking
           /\ \/ case'.pc = "over" /\ case'.error /\ ~case'.result
              \/ /\ UNCHANGED held /\ case'.error = case.error
                 /\ \E ok \in BOOLEAN :
                       /\ ok /\ Counts(case.step) => ThisTx \in mined
                       /\ \/ /\ case'.pc = "teardown" /\ case'.step = case.step
                             /\ case'.skipped = (case.step # Length)
                             /\ case'.skipped => Instr(case.step).needed
                             /\ case'.result => case.step = Length /\ case.earned /\ ok
                          \/ /\ case'.pc = "step" /\ case.step # Length
                             /\ case'.step = case.step + 1
                             /\ case'.earned => case.earned /\ ok
                             /\ case'.result = case.result
<1>1. /\ case.pc = "answer" /\ UNCHANGED <<editVars, chainVars>> /\ Instruction = Instr(case.step)
    BY DEF AnswerTransaction, At, Instruction, Instr
<1>2. case.step \in 1 .. Length
    BY Steps DEF CaseInv, Case
<1>3. Instr(case.step).op \in Staking
    BY <1>1 DEF CaseInv
<1>4. Instr(case.step).needed \in BOOLEAN
    BY <1>2, <1>3, Steps DEF CaseInv, Sendings, Staking
<1>5. ASSUME NEW receipt \in Receipts, NEW report \in Reports, NEW balance \in BOOLEAN, UNCHANGED held,
             LET fact(w) == CASE w = "receipt" -> receipt
                              [] w = "report"  -> report
                              [] w = "balance" -> balance
             IN  Advance(\A w \in Instruction.weighs : fact(w), Instruction.needed)
      PROVE  /\ CaseInv' /\ Keeps /\ case'.error = case.error
             /\ \E ok \in BOOLEAN :
                   /\ ok /\ Counts(case.step) => ThisTx \in mined
                   /\ \/ /\ case'.pc = "teardown" /\ case'.step = case.step
                         /\ case'.skipped = (case.step # Length)
                         /\ case'.skipped => Instr(case.step).needed
                         /\ case'.result => case.step = Length /\ case.earned /\ ok
                      \/ /\ case'.pc = "step" /\ case.step # Length
                         /\ case'.step = case.step + 1
                         /\ case'.earned => case.earned /\ ok
                         /\ case'.result = case.result
    <2> DEFINE fact(w) == CASE w = "receipt" -> receipt
                            [] w = "report"  -> report
                            [] w = "balance" -> balance
               ok == \A w \in Instruction.weighs : fact(w)
    <2>1. ok \in BOOLEAN /\ Advance(ok, Instruction.needed)
        BY <1>5
    <2>2. ok /\ Counts(case.step) => ThisTx \in mined
        <3> SUFFICES ASSUME ok, Counts(case.step) PROVE ThisTx \in mined
            OBVIOUS
        <3>1. "receipt" \in Instruction.weighs
            BY <1>1 DEF Counts
        <3>2. fact("receipt")
            BY <3>1
        <3>3. receipt
            BY <3>2
        <3> QED BY <3>3 DEF Receipts
    <2> HIDE DEF ok
    <2>3. ok \in BOOLEAN /\ Instruction.needed \in BOOLEAN /\ case.pc \in {"step", "answer"}
        BY <1>1, <1>4, <2>1
    <2>4. /\ CaseInv' /\ Keeps /\ case'.error = case.error
          /\ \/ /\ case'.pc = "teardown" /\ case'.step = case.step
                /\ case'.skipped = (case.step # Length)
                /\ case'.skipped => Instruction.needed /\ ~ok
                /\ case'.result => case.step = Length /\ case.earned /\ ok
             \/ /\ case'.pc = "step" /\ case.step # Length /\ case'.step = case.step + 1
                /\ case'.earned => case.earned /\ ok
                /\ case'.result = case.result /\ case'.skipped = case.skipped
        BY <2>1, <2>3, Advanced
    <2> QED BY <1>1, <2>2, <2>3, <2>4
<1>6. CASE HandleError(Instruction.blame)
    BY <1>1, <1>2, <1>3, <1>6, Erred DEF HandleError
<1> QED
    <2>1. CASE /\ \E receipt \in Receipts, report \in Reports, balance \in BOOLEAN :
                LET fact(w) == CASE w = "receipt" -> receipt
                                 [] w = "report"  -> report
                                 [] w = "balance" -> balance
                IN  Advance(\A w \in Instruction.weighs : fact(w), Instruction.needed)
               /\ UNCHANGED held
        <3>1. /\ CaseInv' /\ Keeps /\ case'.error = case.error
              /\ \E ok \in BOOLEAN :
                    /\ ok /\ Counts(case.step) => ThisTx \in mined
                    /\ \/ /\ case'.pc = "teardown" /\ case'.step = case.step
                          /\ case'.skipped = (case.step # Length)
                          /\ case'.skipped => Instr(case.step).needed
                          /\ case'.result => case.step = Length /\ case.earned /\ ok
                       \/ /\ case'.pc = "step" /\ case.step # Length
                          /\ case'.step = case.step + 1
                          /\ case'.earned => case.earned /\ ok
                          /\ case'.result = case.result
            BY <1>5, <2>1, Zenon
        <3> QED BY <1>1, <1>2, <1>3, <2>1, <3>1
    <2> QED BY <1>1, <1>6, <2>1 DEF AnswerTransaction

LEMMA EditLoopOverFacts ==
    ASSUME CaseInv, edit \in Edit, EditLoopOver
    PROVE  /\ CaseInv' /\ Keeps /\ UNCHANGED <<editVars, chainVars>>
           /\ case.pc = "step" /\ case.scenario = "edit" /\ case.step = Length
           /\ \/ case'.pc = "over" /\ case'.error /\ ~case'.result
              \/ /\ UNCHANGED held /\ case'.error = case.error
                 /\ case'.pc = "teardown" /\ case'.step = case.step /\ ~case'.skipped
                 /\ case'.result => case.earned /\ edit.result
<1>1. /\ case.pc = "step" /\ UNCHANGED <<editVars, chainVars>> /\ Instr(case.step).op = "edits"
    BY DEF EditLoopOver, At, Instruction, Instr
<1>2. case.step \in 1 .. Length
    BY Steps DEF CaseInv, Case
<1>3. case.scenario = "edit" /\ case.step = Length
    BY <1>1, <1>2, Steps DEF CaseInv, Staking
<1>4. CASE HandleError(TheValidator)
    BY <1>1, <1>3, <1>4, Erred DEF HandleError
<1>5. CASE Advance(edit.result, FALSE) /\ UNCHANGED held
    <2>1. edit.result \in BOOLEAN
        BY DEF Edit
    <2> QED BY <1>1, <1>3, <1>5, <2>1, Advanced
<1> QED BY <1>4, <1>5 DEF EditLoopOver

LEMMA TeardownFacts ==
    ASSUME CaseInv, TeardownAccounts
    PROVE  /\ CaseInv' /\ Keeps /\ UNCHANGED <<editVars, validators, delegated, mined>>
           /\ case.pc = "teardown" /\ case'.pc = "over" /\ case'.step = case.step
           /\ case'.result = case.result /\ case'.error = case.error
           /\ case'.skipped = case.skipped /\ held' = held \ TornDown
           /\ \A t \in pending' : t \in pending \/ t = [op |-> "disable", who |-> "validator",
                                     signer |-> "validator", bls |-> "first", step |-> 0]
<1>1. /\ case.pc = "teardown" /\ UNCHANGED <<editVars, validators, delegated, mined>>
      /\ held' = held \ TornDown /\ case' = [case EXCEPT !.pc = "over"]
      /\ \E sent \in SUBSET (Disabled \cap held) :
             pending' = pending \cup {[op |-> "disable", who |-> a, signer |-> a, bls |-> "first",
                                       step |-> 0] : a \in sent}
    BY DEF TeardownAccounts, At
<1>2. Disabled \subseteq {"validator"}
    BY DEF Disabled
<1>3. /\ case' \in Case /\ Keeps /\ case'.pc = "over" /\ case'.step = case.step
      /\ case'.result = case.result /\ case'.error = case.error /\ case'.skipped = case.skipped
    BY <1>1 DEF CaseInv, Case, CasePC, Keeps
<1>4. \A t \in pending' : t \in pending \/ t = [op |-> "disable", who |-> "validator",
                                     signer |-> "validator", bls |-> "first", step |-> 0]
    BY <1>1, <1>2
<1> QED BY <1>1, <1>3, <1>4, Kept DEF CaseInv
----
\* The edit loop: what DetectChanges counts, and what EvaluateChanges makes of it.
EditInv ==
    /\ edit \in Edit /\ applied \subseteq Fields
    /\ edit.changes \subseteq edit.asked
    /\ edit.pc \in {"send", "await", "evaluate"} =>
          /\ edit.changes = edit.asked /\ edit.totalChanged >= Cardinality(edit.asked)
          /\ edit.iteration < Repeat
    /\ edit.updated => edit.asked \subseteq edit.seen /\ edit.asked \ DisabledFields \subseteq applied
    /\ edit.result => edit.pc = "over" /\ edit.success /\ edit.updated

\* Until the first edit is evaluated nothing has been added up.
FirstEdit ==
    /\ edit.iteration = 0 =>
          /\ edit.pc = "head" => edit.totalChanged = 0
          /\ edit.pc \in {"send", "await", "evaluate"} =>
                edit.totalChanged = Cardinality(edit.asked)
    /\ edit.iteration = 1 /\ edit.pc = "head" => (edit.updated <=> edit.asked \subseteq edit.seen)

LEMMA FieldSets ==
    ASSUME NEW S, S \subseteq Fields
    PROVE  IsFiniteSet(S) /\ Cardinality(S) \in Nat
BY EditValidatorAssumption, FS_Subset, FS_CardinalityType

LEMMA EditInvInit ==
    ASSUME NEW asked \in SUBSET Fields, NEW holding \in SUBSET Fields, EditInit(asked, holding)
    PROVE  EditInv /\ FirstEdit
<1>1. 0 \in 0 .. Repeat /\ {} \subseteq Fields
    BY EditValidatorAssumption
<1>2. edit \in Edit
    BY <1>1 DEF EditInit, Edit, EditPC
<1> QED BY <1>1, <1>2 DEF EditInit, EditInv, FirstEdit

LEMMA EditStepInv ==
    ASSUME EditInv, FirstEdit, EditStep, UNCHANGED mined
    PROVE  EditInv' /\ FirstEdit'
<1> DisabledFields' = DisabledFields
    BY DEF DisabledFields
<1>0. /\ edit \in Edit /\ applied \subseteq Fields /\ edit.asked \subseteq Fields /\ edit.changes \subseteq Fields
      /\ edit.totalChanged \in Nat /\ edit.iteration \in 0 .. Repeat /\ Repeat \in Nat
      /\ Cardinality(edit.asked) \in Nat
    BY EditValidatorAssumption, FieldSets DEF EditInv, Edit
<1>1. CASE EditFailed /\ UNCHANGED applied
    <2>1. /\ edit' \in Edit /\ edit'.pc = "over" /\ ~edit'.result
          /\ edit'.asked = edit.asked /\ edit'.changes = edit.changes /\ edit'.updated = edit.updated
          /\ edit'.seen = edit.seen
        BY <1>0, <1>1 DEF EditFailed, Edit, EditPC
    <2> QED BY <1>1, <2>1 DEF EditInv, FirstEdit
<1>2. CASE DetectChanges /\ edit.pc = "head" /\ edit.iteration < Repeat /\ UNCHANGED applied
    <2> DEFINE n == edit.totalChanged + Cardinality(edit.asked)
               changed == edit.changes \cup edit.asked
    <2>1. n \in Nat /\ n >= Cardinality(edit.asked) /\ changed = edit.asked
          /\ (edit.totalChanged = 0 => n = Cardinality(edit.asked))
        BY <1>0 DEF EditInv
    <2>2. edit' = [edit EXCEPT !.pc = "send", !.changes = changed, !.totalChanged = n]
        BY <1>2 DEF DetectChanges
    <2> HIDE DEF n, changed
    <2>3. /\ edit' \in Edit /\ edit'.pc = "send" /\ edit'.changes = changed /\ edit'.totalChanged = n
          /\ edit'.asked = edit.asked /\ edit'.updated = edit.updated /\ edit'.result = edit.result
          /\ edit'.iteration = edit.iteration /\ edit'.seen = edit.seen
        BY <1>0, <2>1, <2>2 DEF Edit, EditPC
    <2> QED BY <1>2, <2>1, <2>3 DEF EditInv, FirstEdit
<1>3. CASE /\ edit.pc = "head" /\ UNCHANGED applied
           /\ edit' = [edit EXCEPT !.pc = "over", !.result = edit.success /\ edit.updated]
    <2> DEFINE result == edit.success /\ edit.updated
    <2>1. result \in BOOLEAN /\ (result => edit.success /\ edit.updated)
        OBVIOUS
    <2>2. edit' = [edit EXCEPT !.pc = "over", !.result = result]
        BY <1>3
    <2> HIDE DEF result
    <2>3. /\ edit' \in Edit /\ edit'.pc = "over" /\ edit'.changes = edit.changes
          /\ edit'.asked = edit.asked /\ edit'.updated = edit.updated /\ edit'.result = result
          /\ edit'.success = edit.success /\ edit'.seen = edit.seen
        BY <1>0, <2>1, <2>2 DEF Edit, EditPC
    <2> QED BY <1>3, <2>1, <2>3 DEF EditInv, FirstEdit
<1>4. CASE edit.pc = "send" /\ edit' = [edit EXCEPT !.pc = "await"] /\ UNCHANGED applied
    <2>1. /\ edit' \in Edit /\ edit'.pc = "await" /\ edit'.changes = edit.changes
          /\ edit'.asked = edit.asked /\ edit'.updated = edit.updated /\ edit'.result = edit.result
          /\ edit'.totalChanged = edit.totalChanged /\ edit'.iteration = edit.iteration
          /\ edit'.seen = edit.seen
        BY <1>0, <1>4 DEF Edit, EditPC
    <2> QED BY <1>4, <2>1 DEF EditInv, FirstEdit
<1>5. CASE AwaitEdit
    <2> DEFINE done == tx = "mined"
    <2>1. done \in BOOLEAN
        OBVIOUS
    <2>2. /\ edit.pc = "await" /\ UNCHANGED applied
          /\ \E success \in {FALSE, done} :
                edit' = [edit EXCEPT !.pc = "evaluate", !.success = success]
        BY <1>5 DEF AwaitEdit
    <2> HIDE DEF done
    <2>3. PICK success \in {FALSE, done} : edit' = [edit EXCEPT !.pc = "evaluate", !.success = success]
        BY <2>2
    <2>4. success \in BOOLEAN
        <3>1. CASE success = FALSE
            BY <3>1
        <3>2. CASE success = done
            BY <2>1, <3>2
        <3> QED BY <3>1, <3>2
    <2>5. /\ edit' \in Edit /\ edit'.pc = "evaluate" /\ edit'.changes = edit.changes
          /\ edit'.asked = edit.asked /\ edit'.updated = edit.updated /\ edit'.result = edit.result
          /\ edit'.totalChanged = edit.totalChanged /\ edit'.iteration = edit.iteration
          /\ edit'.seen = edit.seen
        BY <1>0, <2>3, <2>4 DEF Edit, EditPC
    <2> QED BY <2>2, <2>5 DEF EditInv, FirstEdit
<1>6. CASE /\ edit.pc = "evaluate" /\ UNCHANGED applied
           /\ edit' = [edit EXCEPT !.pc = "head", !.iteration = @ + 1, !.seen = applied,
                                   !.updated = edit.totalChanged = SuccessfulChangeCount]
    <2> DEFINE updated == edit.totalChanged = Cardinality(edit.asked \cap applied)
    <2>0. edit.changes = edit.asked /\ edit.totalChanged >= Cardinality(edit.asked)
        BY <1>6 DEF EditInv
    <2>1. updated \in BOOLEAN /\ edit.pc = "evaluate" /\ UNCHANGED applied
          /\ edit' = [edit EXCEPT !.pc = "head", !.iteration = @ + 1, !.seen = applied, !.updated = updated]
        BY <1>6, <2>0 DEF SuccessfulChangeCount
    <2>2. /\ IsFiniteSet(edit.asked) /\ edit.asked \cap applied \in SUBSET edit.asked
          /\ Cardinality(edit.asked \cap applied) \in Nat
        BY <1>0, FieldSets
    <2>3. /\ Cardinality(edit.asked \cap applied) <= Cardinality(edit.asked)
          /\ Cardinality(edit.asked \cap applied) = Cardinality(edit.asked) =>
                 edit.asked = edit.asked \cap applied
        BY <2>2, FS_Subset
    <2>4. updated => edit.asked \subseteq applied
        BY <1>0, <2>0, <2>2, <2>3
    <2>5. edit.totalChanged = Cardinality(edit.asked) => (updated <=> edit.asked \subseteq applied)
        <3>1. edit.asked \subseteq applied => edit.asked \cap applied = edit.asked
            OBVIOUS
        <3> QED BY <2>4, <3>1
    <2> HIDE DEF updated
    <2>6. edit.iteration + 1 \in 0 .. Repeat
        BY <1>0, <1>6 DEF EditInv
    <2>7. /\ edit' \in Edit /\ edit'.pc = "head" /\ edit'.changes = edit.changes
          /\ edit'.asked = edit.asked /\ edit'.updated = updated /\ edit'.result = edit.result
          /\ edit'.totalChanged = edit.totalChanged /\ edit'.iteration = edit.iteration + 1
          /\ edit'.seen = applied
        BY <1>0, <2>1, <2>6 DEF Edit, EditPC
    <2> QED BY <1>0, <2>0, <2>1, <2>4, <2>5, <2>7 DEF EditInv, FirstEdit
<1> QED BY <1>1, <1>2, <1>3, <1>4, <1>5, <1>6 DEF EditStep, NextEdit, SendEdit, EvaluateChanges

LEMMA MineEditInv ==
    ASSUME EditInv, FirstEdit, MineEdit, UNCHANGED mined
    PROVE  EditInv' /\ FirstEdit'
<1>1. edit' = edit /\ applied \subseteq applied' /\ applied' \subseteq Fields
    BY DEF MineEdit, EditInv, Edit
<1>2. DisabledFields' = DisabledFields
    BY DEF DisabledFields
<1> QED BY <1>1, <1>2 DEF EditInv, FirstEdit

\* A staking transaction leaves the fields alone, but for what a disable makes of
\* the status; what was disabled stays so.
LEMMA MineStakingEditInv ==
    ASSUME EditInv, FirstEdit, MineStaking
    PROVE  EditInv' /\ FirstEdit'
<1>0. UNCHANGED edit /\ StatusField \in Fields
    BY EditValidatorAssumption DEF MineStaking
<1>1. CASE UNCHANGED <<mined, applied>>
    BY <1>0, <1>1 DEF EditInv, FirstEdit, DisabledFields
<1>2. CASE \E t : /\ mined' = mined \cup {t}
                 /\ applied' \in IF t.op = "disable"
                                 THEN {applied \ {StatusField}, applied \cup {StatusField}}
                                 ELSE {applied}
    <2>1. PICK t : /\ mined' = mined \cup {t}
                   /\ applied' \in IF t.op = "disable"
                                   THEN {applied \ {StatusField}, applied \cup {StatusField}}
                                   ELSE {applied}
        BY <1>2
    <2>2. CASE t.op = "disable"
        <3>1. DisabledFields' = {StatusField} /\ DisabledFields \subseteq {StatusField}
            BY <2>1, <2>2 DEF DisabledFields
        <3>2. applied \ {StatusField} \subseteq applied' /\ applied' \subseteq applied \cup {StatusField}
            BY <2>1, <2>2
        <3> QED BY <1>0, <3>1, <3>2 DEF EditInv, FirstEdit
    <2>3. CASE t.op # "disable"
        <3>1. DisabledFields' = DisabledFields /\ applied' = applied
            BY <2>1, <2>3 DEF DisabledFields
        <3> QED BY <1>0, <3>1 DEF EditInv, FirstEdit
    <2> QED BY <2>2, <2>3
<1> QED BY <1>1, <1>2, Zenon DEF MineStaking

\* The loop runs inside the scenario, and the chain goes on when it is over.
LEMMA EditInvNext ==
    ASSUME CaseInv, EditInv, FirstEdit, [Next]_vars
    PROVE  EditInv' /\ FirstEdit'
<1>1. CASE UNCHANGED <<editVars, mined>>
    BY <1>1 DEF editVars, EditInv, FirstEdit, DisabledFields
<1>2. CASE EditLoop
    BY <1>2, EditStepInv DEF EditLoop, chainVars
<1>3. CASE MineEdit /\ UNCHANGED chainVars
    BY <1>3, MineEditInv DEF chainVars
<1>4. CASE MineStaking
    BY <1>4, MineStakingEditInv
<1>5. UNCHANGED <<editVars, mined>> \/ EditLoop \/ (MineEdit /\ UNCHANGED chainVars) \/ MineStaking
    BY DEF Next, CaseStep, CheckFunding, GenerateAccount, SendTransaction, AnswerTransaction,
       EditLoopOver, TeardownAccounts, Stopped, vars, chainVars
<1> QED BY <1>1, <1>2, <1>3, <1>4, <1>5

LEMMA CaseInvInit == ASSUME Init PROVE CaseInv
<1>1. case \in [pc : {"funding"}, scenario : Scenarios, reuse : BOOLEAN, shared : BOOLEAN,
                step : {1}, skipped : {FALSE}, earned : {TRUE}, error : {FALSE},
                result : {FALSE}]
    BY DEF Init
<1>2. case \in Case /\ case.pc = "funding" /\ case.step = 1
    <2>1. 1 \in 1 .. 6 /\ "funding" \in CasePC /\ TRUE \in BOOLEAN /\ FALSE \in BOOLEAN
        BY DEF CasePC
    <2> QED BY <1>1, <2>1 DEF Case
<1> QED BY <1>2, Steps DEF CaseInv

LEMMA CaseInvNext ==
    ASSUME CaseInv, edit \in Edit, [Next]_vars
    PROVE  CaseInv' /\ Keeps
<1>1. CASE UNCHANGED case
    <2>1. Keeps
        BY <1>1 DEF Keeps
    <2> QED BY <1>1, <2>1, Kept DEF CaseInv
<1>2. UNCHANGED case \/ CheckFunding \/ GenerateAccount \/ SendTransaction \/ AnswerTransaction
                     \/ EditLoopOver \/ TeardownAccounts
    BY DEF Next, CaseStep, EditLoop, MineStaking, Stopped, vars
<1> QED BY <1>1, <1>2, CheckFundingFacts, GenerateAccountFacts, SendTransactionFacts,
           AnswerTransactionFacts, EditLoopOverFacts, TeardownFacts

LEMMA BaseInit == ASSUME Init PROVE CaseInv /\ EditInv /\ FirstEdit
<1>1. {} \subseteq Fields
    OBVIOUS
<1>2. \E asked, holding \in SUBSET Fields : EditInit(asked, holding)
    BY <1>1 DEF Init
<1> QED BY <1>2, CaseInvInit, EditInvInit

\* The case and the edit loop, on which everything that follows rests.
Base == CaseInv /\ EditInv /\ FirstEdit

LEMMA BaseNext == ASSUME Base, [Next]_vars PROVE Base' /\ Keeps
BY CaseInvNext, EditInvNext DEF Base, EditInv

\* An evaluation of the first edit is right, whatever Repeat is: what it counts
\* is what the edit asked for.
FirstEvaluationRight ==
    edit.iteration = 1 /\ edit.pc = "head" => (edit.updated <=> edit.asked \subseteq edit.seen)

THEOREM FirstEditIsEvaluated == Spec => []FirstEvaluationRight
<1>1. Init => Base
    BY BaseInit DEF Base
<1>2. Base /\ [Next]_vars => Base'
    BY BaseNext
<1>3. Base => FirstEvaluationRight
    BY DEF Base, FirstEdit, FirstEvaluationRight
<1> QED BY <1>1, <1>2, <1>3, PTL DEF Spec

\* With a single edit, as the test cases have it, that is all evaluations.
THEOREM SingleEditIsEvaluated == Repeat = 1 => (Spec => []EvaluatesTheChanges)
<1> SUFFICES ASSUME Repeat = 1 PROVE Spec => []EvaluatesTheChanges
    OBVIOUS
<1>1. Init => Base
    BY BaseInit DEF Base
<1>2. Base /\ [Next]_vars => Base'
    BY BaseNext
<1>3. Base => EvaluatesTheChanges
    <2> SUFFICES ASSUME Base, edit.pc = "head", edit.iteration > 0
                 PROVE  edit.updated <=> edit.asked \subseteq edit.seen
        BY DEF EvaluatesTheChanges
    <2>1. edit.iteration \in 0 .. 1
        BY DEF Base, EditInv, Edit
    <2>2. edit.iteration = 1
        BY <2>1
    <2> QED BY <2>2 DEF Base, FirstEdit
<1> QED BY <1>1, <1>2, <1>3, PTL DEF Spec
----
\* The transaction of instruction i.
TxOf(i) == [op |-> Instr(i).op, who |-> Instr(i).who, signer |-> Instr(i).signer,
            bls |-> Instr(i).bls, step |-> i]
Scripted(t) == \E i \in 1 .. Length : Instr(i).op \in Staking /\ t = TxOf(i)
Disabling == [op |-> "disable", who |-> "validator", signer |-> "validator", bls |-> "first",
              step |-> 0]

\* What the chain holds is what was mined, and what was mined is of the script.
Backed(t) ==
    /\ t.signer = t.who
    /\ t.op = "create" => Exists(t.who) /\ validators[t.who].bls = t.bls
    /\ t.op = "delegate" => Exists("validator") /\ t.who \in delegated
    /\ t.op = "undelegate" => t.who \in delegated
    /\ t.op \in {"edit", "disable"} => Exists(t.who)

ChainInv ==
    /\ validators \in [Roles -> [status : Status, bls : BLSKeys]]
    /\ \A t \in pending \cup mined : t = Disabling \/ Scripted(t)
    /\ \A t \in mined : Backed(t)
    /\ \A a \in Others : Exists(a) => \E t \in mined : t.op = "create" /\ t.who = a
    /\ \A a \in delegated : \E t \in mined : t.op = "delegate" /\ t.who = a
    /\ \A t, u \in mined : /\ t.op = "create" /\ u.op = "create"
                           /\ t.who = u.who \/ t.bls = u.bls
                           => t = u

LEMMA ChainInvInit == ASSUME Init PROVE ChainInv
<1>1. /\ pending = {} /\ mined = {} /\ delegated = {}
      /\ validators = [a \in Roles |->
                        [status |-> IF a = "shared" /\ case.shared THEN "active" ELSE "none",
                         bls |-> "first"]]
    BY DEF Init
<1>2. validators \in [Roles -> [status : Status, bls : BLSKeys]]
    BY <1>1 DEF Status, BLSKeys
<1>3. \A a \in Others : ~Exists(a)
    BY <1>1 DEF Others, Exists
<1> QED BY <1>1, <1>2, <1>3 DEF ChainInv

\* The fields of a transaction the node may hold.
LEMMA TxTyped ==
    ASSUME CaseInv, NEW t, t = Disabling \/ Scripted(t)
    PROVE  t.who \in Roles /\ t.signer \in Roles /\ t.bls \in BLSKeys /\ t.op \in Staking \cup {"disable"}
<1>1. CASE t = Disabling
    BY <1>1 DEF Disabling, Roles, BLSKeys
<1>2. ASSUME NEW i \in 1 .. Length, Instr(i).op \in Staking, t = TxOf(i)
      PROVE  t.who \in Roles /\ t.signer \in Roles /\ t.bls \in BLSKeys /\ t.op \in Staking
    <2>1. Instr(i) \in Sendings
        BY <1>2, Steps DEF CaseInv, Staking
    <2> QED BY <1>2, <2>1 DEF TxOf, Sendings
<1> QED BY <1>1, <1>2 DEF Scripted

\* A block that takes a transaction keeps to what it allows.
LEMMA MinedAllowed ==
    ASSUME CaseInv, ChainInv, NEW t \in pending, Allowed(t), pending' = pending \ {t},
           mined' = mined \cup {t},
           validators' = CASE t.op = "create"  -> [validators EXCEPT ![t.who] =
                                                      [status |-> "active", bls |-> t.bls]]
                           [] t.op = "disable" -> [validators EXCEPT ![t.who].status = "inactive"]
                           [] OTHER -> validators,
           delegated' = IF t.op = "delegate" THEN delegated \cup {t.who} ELSE delegated,
           UNCHANGED case
    PROVE  ChainInv'
<1>0. /\ t = Disabling \/ Scripted(t)
      /\ validators \in [Roles -> [status : Status, bls : BLSKeys]]
    BY DEF ChainInv
<1>1. t.who \in Roles /\ t.bls \in BLSKeys /\ t.op \in Staking \cup {"disable"} /\ t.signer = t.who
    BY <1>0, TxTyped DEF Allowed
<1>2. Keeps
    BY DEF Keeps
<1>3. validators' \in [Roles -> [status : Status, bls : BLSKeys]]
    BY <1>0, <1>1 DEF Status
<1>4. /\ \A a \in Roles : Exists(a) => Exists(a)'
      /\ \A a \in Roles : Exists(a)' => Exists(a) \/ (t.op = "create" /\ a = t.who)
      /\ \A a \in Roles : Exists(a) => validators'[a].bls = validators[a].bls
      /\ t.op = "create" => Exists(t.who)' /\ validators'[t.who].bls = t.bls
    <2>1. CASE t.op = "create"
        BY <1>0, <1>1, <2>1 DEF Allowed, Exists
    <2>2. CASE t.op = "disable"
        BY <1>0, <1>1, <2>2 DEF Exists, Allowed
    <2>3. CASE t.op \notin {"create", "disable"}
        <3>1. validators' = validators
            BY <2>3
        <3> QED BY <2>3, <3>1 DEF Exists
    <2> QED BY <2>1, <2>2, <2>3
<1>5. /\ delegated \subseteq delegated' /\ delegated' \subseteq delegated \cup {t.who}
      /\ t.op = "delegate" => t.who \in delegated'
      /\ t.op # "delegate" => delegated' = delegated
    OBVIOUS
<1>6. "validator" \in Roles /\ Others \subseteq Roles
    BY DEF Roles, Others
<1>7. \A u \in mined : u.who \in Roles /\ (u = Disabling \/ Scripted(u)) /\ Backed(u)
    BY TxTyped DEF ChainInv
<1>8. \A u \in pending' \cup mined' : u = Disabling \/ Scripted(u)'
    BY <1>2, Kept DEF ChainInv, Scripted, TxOf
<1>9. \A u \in mined : Backed(u)'
    BY <1>4, <1>5, <1>6, <1>7 DEF Backed
<1>10. Backed(t)'
    BY <1>1, <1>4, <1>5, <1>6 DEF Backed, Allowed
<1>11. \A a \in Others : Exists(a)' => \E u \in mined' : u.op = "create" /\ u.who = a
    BY <1>4, <1>6 DEF ChainInv
<1>12. \A a \in delegated' : \E u \in mined' : u.op = "delegate" /\ u.who = a
    BY <1>5 DEF ChainInv
<1>13. \A u \in mined : t.op = "create" /\ u.op = "create" => t.who # u.who /\ t.bls # u.bls
    BY <1>7 DEF Backed, Allowed
<1>14. \A v, u \in mined' : /\ v.op = "create" /\ u.op = "create"
                            /\ v.who = u.who \/ v.bls = u.bls
                            => v = u
    BY <1>13 DEF ChainInv
<1> QED BY <1>3, <1>8, <1>9, <1>10, <1>11, <1>12, <1>14 DEF ChainInv

LEMMA ChainInvNext ==
    ASSUME Base, ChainInv, [Next]_vars
    PROVE  ChainInv'
<1>0. CaseInv /\ edit \in Edit /\ Keeps
    BY BaseNext DEF Base, EditInv
<1>1. ASSUME UNCHANGED <<validators, delegated, mined>>,
             \A t \in pending' : t \in pending \/ t = Disabling \/ Scripted(t)
      PROVE  ChainInv'
    <2>1. \A t : Scripted(t)' <=> Scripted(t)
        BY <1>0, Kept DEF Scripted, TxOf
    <2>2. \A t \in pending' \cup mined' : t = Disabling \/ Scripted(t)'
        BY <1>1, <2>1 DEF ChainInv
    <2> QED BY <1>1, <2>2 DEF ChainInv, Backed, Exists
<1>2. CASE UNCHANGED chainVars
    BY <1>1, <1>2 DEF chainVars
<1>3. CASE SendTransaction
    <2>1. /\ UNCHANGED <<validators, delegated, mined>> /\ case.step \in 1 .. Length
          /\ Instr(case.step).op \in Staking /\ pending' \in {pending, pending \cup {ThisTx}}
        BY <1>0, <1>3, SendTransactionFacts
    <2>2. ThisTx = TxOf(case.step)
        BY DEF ThisTx, TxOf, Instruction, Instr
    <2>3. Scripted(ThisTx)
        BY <2>1, <2>2 DEF Scripted
    <2> QED BY <1>1, <2>1, <2>3
<1>4. CASE TeardownAccounts
    BY <1>0, <1>1, <1>4, TeardownFacts DEF Disabling
<1>5. CASE MineStaking
    <2>1. PICK t \in pending :
              /\ pending' = pending \ {t}
              /\ \/ UNCHANGED <<validators, delegated, mined, applied>>
                 \/ /\ Allowed(t)
                    /\ mined' = mined \cup {t}
                    /\ validators' =
                          CASE t.op = "create"  -> [validators EXCEPT ![t.who] =
                                                       [status |-> "active", bls |-> t.bls]]
                            [] t.op = "disable" -> [validators EXCEPT ![t.who].status = "inactive"]
                            [] OTHER -> validators
                    /\ delegated' = IF t.op = "delegate" THEN delegated \cup {t.who} ELSE delegated
        BY <1>5, Zenon DEF MineStaking
    <2>2. UNCHANGED case
        BY <1>5 DEF MineStaking
    <2>3. CASE UNCHANGED <<validators, delegated, mined>>
        BY <1>1, <2>1, <2>3
    <2>4. CASE ~UNCHANGED <<validators, delegated, mined>>
        BY <1>0, <2>1, <2>2, <2>4, MinedAllowed
    <2> QED BY <2>3, <2>4
<1>6. UNCHANGED chainVars \/ SendTransaction \/ TeardownAccounts \/ MineStaking
    BY DEF Next, CaseStep, CheckFunding, GenerateAccount, AnswerTransaction, EditLoop, EditLoopOver,
           Stopped, vars
<1> QED BY <1>2, <1>3, <1>4, <1>5, <1>6
----
\* What has been weighed so far, and found sufficient, was mined.
Weighed(i) == Instr(i).op \in Staking /\ Counts(i)
EarnedInv ==
    /\ case.pc \in {"step", "answer"} /\ case.earned =>
          \A i \in 1 .. case.step - 1 : Weighed(i) => TxOf(i) \in mined
    /\ case.result =>
          /\ case.pc \in {"teardown", "over"}
          /\ \A i \in 1 .. Length : Weighed(i) => TxOf(i) \in mined
          /\ case.scenario = "edit" => edit.result

LEMMA EarnedInvInit == ASSUME Init PROVE EarnedInv
<1>1. case.pc = "funding" /\ ~case.result
    BY DEF Init
<1> QED BY <1>1 DEF EarnedInv

LEMMA EarnedInvNext ==
    ASSUME Base, EarnedInv, [Next]_vars
    PROVE  EarnedInv'
<1>0. /\ CaseInv /\ edit \in Edit /\ Keeps /\ case \in Case /\ case.step \in 1 .. 6
      /\ edit.result => edit.pc = "over"
    BY BaseNext DEF Base, EditInv, CaseInv, Case
<1>1. \A i : Weighed(i)' = Weighed(i) /\ TxOf(i)' = TxOf(i)
    BY <1>0, Kept DEF Weighed, Counts, TxOf
<1>2. Length' = Length /\ case'.scenario = case.scenario
    BY <1>0, Kept DEF Keeps
<1>3. mined \subseteq mined'
    BY <1>0, CheckFundingFacts, GenerateAccountFacts, SendTransactionFacts, AnswerTransactionFacts,
       EditLoopOverFacts, TeardownFacts
    DEF Next, CaseStep, EditLoop, MineStaking, Stopped, vars, chainVars
\* A step that leaves the test case where it is.
<1>4. ASSUME UNCHANGED case, case.result => (edit.result => edit'.result) PROVE EarnedInv'
    BY <1>1, <1>2, <1>3, <1>4 DEF EarnedInv
\* An error, and any other step that leaves no result.
<1>5. ASSUME case'.pc = "over", ~case'.result PROVE EarnedInv'
    BY <1>5 DEF EarnedInv
<1>6. CASE CheckFunding
    <2>1. CASE case'.pc = "step" /\ case'.step = First /\ case'.result = case.result /\ case.pc = "funding"
        <3>1. \A i \in 1 .. First - 1 : ~Weighed(i)
            <4>1. CASE First = 1
                BY <4>1
            <4>2. CASE First = 3 /\ case.scenario \in {"edit", "edit_invalid"}
                <5>1. Instr(1).op = "fund" /\ ~Counts(2)
                    BY <4>2, Scripts DEF Funds
                <5> QED BY <4>2, <5>1 DEF Weighed, Staking
            <4> QED BY <4>1, <4>2 DEF First
        <3> QED BY <1>1, <2>1, <3>1 DEF EarnedInv
    <2> QED BY <1>0, <1>5, <1>6, <2>1, CheckFundingFacts
<1>7. CASE GenerateAccount
    <2>1. CASE /\ case'.pc = "step" /\ case'.step = case.step + 1 /\ (case'.earned => case.earned)
               /\ case'.result = case.result /\ case.pc = "step" /\ Instr(case.step).op = "fund"
        <3>1. ~Weighed(case.step)
            BY <2>1 DEF Weighed, Staking
        <3>2. \A i \in 1 .. case'.step - 1 : i \in 1 .. case.step - 1 \/ i = case.step
            BY <1>0, <2>1
        <3> QED BY <1>1, <1>3, <2>1, <3>1, <3>2 DEF EarnedInv
    <2> QED BY <1>0, <1>5, <1>7, <2>1, GenerateAccountFacts
<1>8. CASE SendTransaction
    <2>1. CASE /\ case'.pc = "answer" /\ case'.step = case.step /\ case'.earned = case.earned
               /\ case'.result = case.result /\ case.pc = "step"
        BY <1>1, <1>3, <2>1 DEF EarnedInv
    <2> QED BY <1>0, <1>5, <1>8, <2>1, SendTransactionFacts
<1>9. CASE AnswerTransaction
    <2>0. ThisTx = TxOf(case.step)
        BY DEF ThisTx, TxOf, Instruction, Instr
    <2>1. ASSUME NEW ok \in BOOLEAN, ok /\ Counts(case.step) => ThisTx \in mined,
                 case.pc = "answer", case.step \in 1 .. Length, Instr(case.step).op \in Staking,
                 case'.pc = "teardown" /\ case'.result => case.step = Length /\ case.earned /\ ok,
                 case'.pc = "step" => case'.step = case.step + 1 /\ (case'.earned => case.earned /\ ok)
                                      /\ case'.result = case.result,
                 case'.pc \in {"step", "teardown"}
          PROVE  EarnedInv'
        <3>1. ok => (Weighed(case.step) => TxOf(case.step) \in mined)
            BY <2>0, <2>1 DEF Weighed
        <3>2. \A i \in 1 .. case.step : i \in 1 .. case.step - 1 \/ i = case.step
            BY <1>0
        <3>3. case.earned /\ ok => \A i \in 1 .. case.step : Weighed(i) => TxOf(i) \in mined
            BY <2>1, <3>1, <3>2 DEF EarnedInv
        <3>4. case.scenario # "edit" \/ case.step # Length
            <4>1. case.scenario = "edit" => Length = 3 /\ Instr(3).op = "edits"
                BY Scripts
            <4> QED BY <2>1, <4>1 DEF Staking
        <3>5. CASE case'.pc = "teardown"
            BY <1>1, <1>2, <1>3, <2>1, <3>3, <3>4, <3>5 DEF EarnedInv
        <3>6. CASE case'.pc = "step"
            <4>1. case'.step - 1 = case.step
                BY <1>0, <2>1, <3>6
            <4> QED BY <1>1, <1>2, <1>3, <2>1, <3>3, <3>6, <4>1 DEF EarnedInv
        <3> QED BY <2>1, <3>5, <3>6
    <2> QED BY <1>0, <1>5, <1>9, <2>1, AnswerTransactionFacts
<1>10. CASE EditLoopOver
    <2>1. CASE /\ case'.pc = "teardown" /\ (case'.result => case.earned /\ edit.result)
               /\ case.pc = "step" /\ case.step = Length /\ case.scenario = "edit" /\ edit' = edit
        <3>1. Length = 3 /\ Instr(3).op = "edits"
            BY <2>1, Scripts
        <3>2. ~Weighed(Length)
            BY <3>1 DEF Weighed, Staking
        <3>3. \A i \in 1 .. Length : i \in 1 .. case.step - 1 \/ i = Length
            BY <2>1, <3>1
        <3>4. case.earned => \A i \in 1 .. Length : Weighed(i) => TxOf(i) \in mined
            BY <2>1, <3>2, <3>3 DEF EarnedInv
        <3> QED BY <1>1, <1>2, <1>3, <2>1, <3>4 DEF EarnedInv
    <2> QED BY <1>0, <1>5, <1>10, <2>1, EditLoopOverFacts DEF editVars
<1>11. CASE TeardownAccounts
    <2>1. /\ case'.pc = "over" /\ case'.result = case.result /\ edit' = edit
        BY <1>0, <1>11, TeardownFacts DEF editVars
    <2> QED BY <1>1, <1>2, <1>3, <2>1 DEF EarnedInv
<1>12. CASE EditLoop
    BY <1>4, <1>12 DEF EditLoop, At, EarnedInv
<1>13. CASE (MineEdit /\ UNCHANGED case) \/ MineStaking \/ UNCHANGED vars
    <2>1. UNCHANGED <<case, edit>>
        BY <1>13 DEF MineEdit, MineStaking, vars, editVars
    <2> QED BY <1>4, <2>1
<1> QED BY <1>6, <1>7, <1>8, <1>9, <1>10, <1>11, <1>12, <1>13 DEF Next, CaseStep, Stopped

\* In every refusal scenario some transaction that is weighed cannot be mined.
LEMMA SomeIsRefused ==
    ASSUME CaseInv, ChainInv, case.scenario \in Refusals
    PROVE  \E i \in 1 .. Length : Weighed(i) /\ TxOf(i) \notin mined
<1>0. \A i : /\ TxOf(i).op = Instr(i).op /\ TxOf(i).who = Instr(i).who /\ TxOf(i).step = i
             /\ TxOf(i).signer = Instr(i).signer /\ TxOf(i).bls = Instr(i).bls
    BY DEF TxOf
<1>1. \A t \in mined : (t = Disabling \/ Scripted(t)) /\ Backed(t)
    BY DEF ChainInv
<1>2. /\ "create" \in Staking /\ "edit" \in Staking /\ "delegate" \in Staking /\ "undelegate" \in Staking
      /\ "validator" \in Others
    BY DEF Staking, Others, Roles
\* Signed by the wrong account.
<1>3. CASE case.scenario = "create_invalid"
    <2>1. Length = 3 /\ Sends(3, "create", "validator", "sender", "first") /\ Counts(3)
        BY <1>3, Scripts
    <2>2. 3 \in 1 .. Length /\ Weighed(3) /\ TxOf(3).signer # TxOf(3).who
        BY <1>0, <1>2, <2>1 DEF Sends, Is, Weighed
    <2> QED BY <1>1, <2>2 DEF Backed
<1>4. CASE case.scenario = "edit_invalid"
    <2>1. Length = 4 /\ Sends(4, "edit", TheValidator, "sender", "first") /\ Counts(4)
        BY <1>4, Scripts
    <2>2. 4 \in 1 .. Length /\ Weighed(4) /\ TxOf(4).signer # TxOf(4).who
        BY <1>0, <1>2, <2>1 DEF Sends, Is, Weighed, TheValidator
    <2> QED BY <1>1, <2>2 DEF Backed
<1>5. CASE case.scenario = "delegate_invalid"
    <2>1. Length = 5 /\ Sends(5, "delegate", "delegator", "sender", "first") /\ Counts(5)
        BY <1>5, Scripts
    <2>2. 5 \in 1 .. Length /\ Weighed(5) /\ TxOf(5).signer # TxOf(5).who
        BY <1>0, <1>2, <2>1 DEF Sends, Is, Weighed
    <2> QED BY <1>1, <2>2 DEF Backed
<1>6. CASE case.scenario = "undelegate_invalid"
    <2>1. Length = 6 /\ Sends(6, "undelegate", "delegator", "sender", "first") /\ Counts(6)
        BY <1>6, Scripts
    <2>2. 6 \in 1 .. Length /\ Weighed(6) /\ TxOf(6).signer # TxOf(6).who
        BY <1>0, <1>2, <2>1 DEF Sends, Is, Weighed
    <2> QED BY <1>1, <2>2 DEF Backed
\* About a validator or a BLS key that is there already.
<1>7. CASE case.scenario = "create_exists"
    <2>1. /\ Length = 3 /\ Sends(2, "create", "validator", "validator", "first") /\ Counts(2)
          /\ Sends(3, "create", "validator", "validator", "second") /\ Counts(3)
        BY <1>7, Scripts
    <2>2. /\ 2 \in 1 .. Length /\ Weighed(2) /\ 3 \in 1 .. Length /\ Weighed(3)
          /\ TxOf(2).op = "create" /\ TxOf(3).op = "create" /\ TxOf(2).who = TxOf(3).who
          /\ TxOf(2).step # TxOf(3).step
        BY <1>0, <1>2, <2>1 DEF Sends, Is, Weighed
    <2> QED BY <2>2 DEF ChainInv
<1>8. CASE case.scenario = "create_bls"
    <2>1. /\ Length = 4 /\ Sends(2, "create", "validator", "validator", "first") /\ Counts(2)
          /\ Sends(4, "create", "duplicate", "duplicate", "first") /\ Counts(4)
        BY <1>8, Scripts
    <2>2. /\ 2 \in 1 .. Length /\ Weighed(2) /\ 4 \in 1 .. Length /\ Weighed(4)
          /\ TxOf(2).op = "create" /\ TxOf(4).op = "create" /\ TxOf(2).bls = TxOf(4).bls
          /\ TxOf(2).step # TxOf(4).step
        BY <1>0, <1>2, <2>1 DEF Sends, Is, Weighed
    <2> QED BY <2>2 DEF ChainInv
\* About a validator or a delegation that the scenario never asks for.
<1>9. CASE case.scenario = "edit_missing"
    <2>1. /\ Length = 2 /\ Funds(1, "validator")
          /\ Sends(2, "edit", "validator", "validator", "first") /\ Counts(2)
        BY <1>9, Scripts
    <2>2. /\ 2 \in 1 .. Length /\ Weighed(2) /\ TxOf(2).op = "edit" /\ TxOf(2).who = "validator"
          /\ \A i \in 1 .. Length : Instr(i).op # "create"
        BY <1>0, <1>2, <2>1 DEF Sends, Is, Weighed, Funds
    <2>3. \A t \in mined : t.op # "create"
        BY <1>0, <1>1, <2>2 DEF Scripted, Disabling
    <2>4. ~Exists("validator")
        BY <1>2, <2>3 DEF ChainInv
    <2> QED BY <1>1, <2>2, <2>4 DEF Backed
<1>10. CASE case.scenario = "delegate_missing"
    <2>1. /\ Length = 3 /\ Funds(1, "validator") /\ Funds(2, "delegator")
          /\ Sends(3, "delegate", "delegator", "delegator", "first") /\ Counts(3)
        BY <1>10, Scripts
    <2>2. /\ 3 \in 1 .. Length /\ Weighed(3) /\ TxOf(3).op = "delegate"
          /\ \A i \in 1 .. Length : Instr(i).op # "create"
        BY <1>0, <1>2, <2>1 DEF Sends, Is, Weighed, Funds
    <2>3. \A t \in mined : t.op # "create"
        BY <1>0, <1>1, <2>2 DEF Scripted, Disabling
    <2>4. ~Exists("validator")
        BY <1>2, <2>3 DEF ChainInv
    <2> QED BY <1>1, <2>2, <2>4 DEF Backed
<1>11. CASE case.scenario = "undelegate_missing"
    <2>1. /\ Length = 3 /\ Funds(1, "validator") /\ Funds(2, "delegator")
          /\ Sends(3, "undelegate", "delegator", "delegator", "first") /\ Counts(3)
        BY <1>11, Scripts
    <2>2. /\ 3 \in 1 .. Length /\ Weighed(3) /\ TxOf(3).op = "undelegate"
          /\ \A i \in 1 .. Length : Instr(i).op # "delegate"
        BY <1>0, <1>2, <2>1 DEF Sends, Is, Weighed, Funds
    <2>3. \A t \in mined : t.op # "delegate"
        BY <1>0, <1>1, <2>2 DEF Scripted, Disabling
    <2>4. delegated = {}
        BY <2>3 DEF ChainInv
    <2> QED BY <1>1, <2>2, <2>4 DEF Backed
<1> QED BY <1>3, <1>4, <1>5, <1>6, <1>7, <1>8, <1>9, <1>10, <1>11 DEF Refusals

\* A creation signed by the wrong account leaves no validator to delegate to.
LEMMA NothingStarted ==
    ASSUME ChainInv, case.scenario \in {"create_invalid", "delegate_invalid", "undelegate_invalid"}
    PROVE  ~Exists("validator") /\ delegated = {}
<1>1. \A i \in 1 .. Length : Instr(i).op = "create" => Instr(i).signer # Instr(i).who
    <2>1. CASE case.scenario = "create_invalid"
        BY <2>1, Scripts DEF Funds, Sends, Is
    <2>2. CASE case.scenario = "delegate_invalid"
        BY <2>2, Scripts DEF Funds, Sends, Is
    <2>3. CASE case.scenario = "undelegate_invalid"
        BY <2>3, Scripts DEF Funds, Sends, Is
    <2> QED BY <2>1, <2>2, <2>3
<1>2. \A t \in mined : (t = Disabling \/ Scripted(t)) /\ Backed(t)
    BY DEF ChainInv
<1>3. \A t \in mined : t.op # "create"
    BY <1>1, <1>2 DEF Scripted, TxOf, Disabling, Backed
<1>4. "validator" \in Others
    BY DEF Others, Roles
<1>5. ~Exists("validator")
    BY <1>3, <1>4 DEF ChainInv
<1>6. \A t \in mined : t.op # "delegate"
    BY <1>2, <1>5 DEF Backed
<1> QED BY <1>5, <1>6 DEF ChainInv

\* Whatever the node reports and however late it mines: a scenario that expects
\* the chain to refuse is never successful, and one that starts from a creation
\* signed by the wrong account never gets a validator, or a delegation to it.
THEOREM RefusalsAreRefused == Spec => []NothingRefusedSucceeds
<1>1. Init => Base /\ ChainInv /\ EarnedInv
    BY BaseInit, ChainInvInit, EarnedInvInit DEF Base
<1>2. Base /\ ChainInv /\ EarnedInv /\ [Next]_vars => (Base /\ ChainInv /\ EarnedInv)'
    BY BaseNext, ChainInvNext, EarnedInvNext
<1>3. Base /\ ChainInv /\ EarnedInv => NothingRefusedSucceeds
    BY SomeIsRefused, NothingStarted DEF Base, EarnedInv, NothingRefusedSucceeds
<1> QED BY <1>1, <1>2, <1>3, PTL DEF Spec

\* A positive result is what the chain says, for any number of edits: although
\* the changes are added up over the edits, too many of them only ever make an
\* evaluation say no.
THEOREM ResultsAreEarned == Spec => []ResultIsEarned
<1>1. Init => Base /\ ChainInv /\ EarnedInv
    BY BaseInit, ChainInvInit, EarnedInvInit DEF Base
<1>2. Base /\ ChainInv /\ EarnedInv /\ [Next]_vars => (Base /\ ChainInv /\ EarnedInv)'
    BY BaseNext, ChainInvNext, EarnedInvNext
<1>3. Base /\ ChainInv /\ EarnedInv => ResultIsEarned
    <2> SUFFICES ASSUME Base, ChainInv, EarnedInv, case.result PROVE ResultIsEarned
        BY DEF ResultIsEarned
    <2>1. CASE case.scenario = "create"
        <3>1. Length = 2 /\ Sends(2, "create", "validator", "validator", "first") /\ Counts(2)
            BY <2>1, Scripts
        <3>2. 2 \in 1 .. Length /\ Weighed(2) /\ TxOf(2).op = "create" /\ TxOf(2).who = "validator"
            BY <3>1 DEF Sends, Is, Weighed, TxOf, Staking
        <3>3. TxOf(2) \in mined
            BY <3>2 DEF EarnedInv
        <3> QED BY <2>1, <3>2, <3>3 DEF ChainInv, Backed, ResultIsEarned
    <2>2. CASE case.scenario = "edit"
        BY <2>2 DEF Base, EditInv, EarnedInv, ResultIsEarned
    <2> QED BY <2>1, <2>2 DEF ResultIsEarned
<1> QED BY <1>1, <1>2, <1>3, PTL DEF Spec
----
\* The accounts of the test case's own whose key is there, and those the script
\* generates with its instructions up to n.
Generated == held \ {"shared"}
Funded(n) == {a \in Roles : \E i \in First .. n : Funds(i, a)}

\* A scenario is left with what it has generated, and by which of its
\* transactions says whether it skipped the rest.
KeysInv ==
    /\ case.pc = "funding" => Generated = {}
    /\ case.pc \in {"step", "answer", "teardown"} =>
          First <= case.step /\ Generated = Funded(case.step - 1)
    /\ case.pc = "teardown" =>
          /\ Instr(case.step).op \in Staking \cup {"edits"}
          /\ case.skipped => case.step # Length /\ Instr(case.step).needed
          /\ ~case.skipped => case.step = Length
    /\ AccountsRemoved

LEMMA FundedNext ==
    ASSUME CaseInv, First <= case.step
    PROVE  /\ Instr(case.step).op = "fund" /\ Instr(case.step).who \in Roles =>
                 Funded(case.step) = Funded(case.step - 1) \cup {Instr(case.step).who}
           /\ Instr(case.step).op # "fund" => Funded(case.step) = Funded(case.step - 1)
<1>1. First \in 1 .. 3 /\ case.step \in 1 .. 6
    BY DEF First, CaseInv, Case
<1>2. \A i \in First .. case.step : i \in First .. case.step - 1 \/ i = case.step
    BY <1>1
<1>3. First .. case.step - 1 \subseteq First .. case.step /\ case.step \in First .. case.step
    BY <1>1
<1>4. Instr(case.step).op = "fund" /\ Instr(case.step).who \in Roles =>
          Funded(case.step) = Funded(case.step - 1) \cup {Instr(case.step).who}
    BY <1>2, <1>3 DEF Funded, Funds
<1>5. Instr(case.step).op # "fund" => Funded(case.step) = Funded(case.step - 1)
    BY <1>2, <1>3 DEF Funded, Funds
<1> QED BY <1>4, <1>5

LEMMA KeysInvInit == ASSUME Init PROVE KeysInv
<1>1. case.pc = "funding" /\ held \subseteq {"shared"}
    BY DEF Init
<1> QED BY <1>1 DEF KeysInv, Generated, AccountsRemoved, At

\* The keys that are gone when the last accounts have been torn down.
LEMMA NotLeftBehind ==
    ASSUME CaseInv, KeysInv, case.pc = "teardown"
    PROVE  LET left == held \ TornDown
           IN  /\ case.scenario \in {"create", "create_exists", "create_bls", "edit_missing"} =>
                     left \subseteq {"shared"}
               /\ "delegator" \notin left
               /\ case.scenario = "edit_invalid" /\ ~case.skipped => "sender" \notin left
               /\ "validator" \in left =>
                     \/ case.reuse
                     \/ case.scenario = "create_invalid"
                     \/ case.scenario = "edit_invalid" /\ case.skipped
<1>1. /\ Generated = Funded(case.step - 1) /\ case.step \in First .. Length
      /\ case.step # Length => case.skipped /\ Instr(case.step).needed
      /\ Instr(case.step).op # "fund" /\ First \in {1, 3} /\ Length \in 2 .. 6
      /\ case.scenario \notin {"edit", "edit_invalid"} => First = 1
      /\ case.scenario \in AllScenarios
    BY Steps, ValidatorScenariosAssumption DEF KeysInv, CaseInv, Case, Staking, First
<1>2. /\ "validator" \in Roles /\ "delegator" \in Roles /\ "sender" \in Roles /\ "duplicate" \in Roles
    BY DEF Roles
<1>3. ~case.reuse => "validator" \in OwnValidator
    BY DEF OwnValidator
<1>4. CASE case.scenario = "create"
    <2>1. case.step = 2 /\ Generated = {"validator"}
        BY <1>1, <1>2, <1>4, Scripts DEF Funded, Funds
    <2> QED BY <1>4, <2>1 DEF TornDown, Generated
<1>5. CASE case.scenario = "create_exists"
    <2>1. case.step = 3
        BY <1>1, <1>5, Scripts DEF Funds
    <2>2. Generated = {"validator"}
        BY <1>1, <1>2, <1>5, <2>1, Scripts DEF Funded, Funds, Sends, Is
    <2> QED BY <1>5, <2>2 DEF TornDown, Generated
<1>6. CASE case.scenario = "create_bls"
    <2>1. case.step \in {2, 4}
        BY <1>1, <1>6, Scripts DEF Funds
    <2>2. Generated \subseteq {"validator", "duplicate"}
        BY <1>1, <1>2, <1>6, <2>1, Scripts DEF Funded, Funds, Sends, Is
    <2> QED BY <1>6, <2>2 DEF TornDown, Generated
<1>7. CASE case.scenario = "create_invalid"
    <2>1. case.step = 3
        BY <1>1, <1>7, Scripts DEF Funds
    <2>2. Generated = {"validator", "sender"}
        BY <1>1, <1>2, <1>7, <2>1, Scripts DEF Funded, Funds
    <2> QED BY <1>7, <2>2 DEF TornDown, Generated
<1>8. CASE case.scenario = "edit"
    <2>1. case.step \in {2, 3}
        BY <1>1, <1>8, Scripts DEF Funds
    <2>2. Generated \subseteq {"validator"}
        BY <1>1, <1>2, <1>8, <2>1, Scripts DEF Funded, Funds, Sends, Is
    <2>3. TornDown = OwnValidator
        BY <1>8 DEF TornDown
    <2> QED BY <1>3, <1>8, <2>2, <2>3 DEF Generated
<1>9. CASE case.scenario = "edit_invalid"
    <2>1. case.step \in {2, 4}
        BY <1>1, <1>9, Scripts DEF Funds
    <2>2. CASE case.step = 2
        <3>1. Generated = {"validator"} /\ case.skipped
            BY <1>1, <1>2, <1>9, <2>2, Scripts DEF Funded, Funds
        <3> QED BY <1>9, <2>2, <3>1 DEF Generated
    <2>3. CASE case.step = 4
        <3>1. ~case.skipped
            BY <1>9, <2>3, Scripts DEF KeysInv
        <3>2. TornDown = {"sender"} \cup OwnValidator
            BY <1>9, <3>1 DEF TornDown
        <3>3. Generated \subseteq {"validator", "sender"}
            BY <1>1, <1>2, <1>9, <2>3, Scripts DEF Funded, Funds, Sends, Is
        <3> QED BY <1>9, <3>1, <3>2, <3>3 DEF OwnValidator, Generated
    <2> QED BY <2>1, <2>2, <2>3
<1>10. CASE case.scenario = "edit_missing"
    <2>1. case.step = 2 /\ Generated = {"validator"}
        BY <1>1, <1>2, <1>10, Scripts DEF Funded, Funds
    <2> QED BY <1>10, <2>1 DEF TornDown, Generated
<1>11. CASE case.scenario \in {"delegate_invalid", "undelegate_invalid"}
    <2>1. Generated = {"validator", "delegator", "sender"}
        <3>1. CASE case.scenario = "delegate_invalid"
            <4>1. case.step \in {4, 5}
                BY <1>1, <3>1, Scripts DEF Funds
            <4> QED BY <1>1, <1>2, <3>1, <4>1, Scripts DEF Funded, Funds, Sends, Is
        <3>2. CASE case.scenario = "undelegate_invalid"
            <4>1. case.step \in {4, 5, 6}
                BY <1>1, <3>2, Scripts DEF Funds
            <4> QED BY <1>1, <1>2, <3>2, <4>1, Scripts DEF Funded, Funds, Sends, Is
        <3> QED BY <1>11, <3>1, <3>2
    <2>2. TornDown = {"delegator"} \cup OwnValidator
        BY <1>11 DEF TornDown
    <2> QED BY <1>3, <1>11, <2>1, <2>2 DEF Generated
<1>12. CASE case.scenario \in {"delegate_missing", "undelegate_missing"}
    <2>1. case.step = 3 /\ Generated = {"validator", "delegator"}
        BY <1>1, <1>2, <1>12, Scripts DEF Funded, Funds
    <2>2. TornDown = {"delegator"} \cup OwnValidator
        BY <1>12 DEF TornDown
    <2> QED BY <1>3, <1>12, <2>1, <2>2 DEF Generated
<1> QED BY <1>1, <1>4, <1>5, <1>6, <1>7, <1>8, <1>9, <1>10, <1>11, <1>12 DEF AllScenarios, Refusals

LEMMA KeysInvNext ==
    ASSUME CaseInv, edit \in Edit, KeysInv, [Next]_vars
    PROVE  KeysInv'
<1>1. Keeps => /\ First' = First /\ OwnValidator' = OwnValidator
               /\ \A i, a : Funds(i, a)' = Funds(i, a)
    BY Kept DEF Keeps, First, OwnValidator, Funds
\* An error, or a test case that is not over.
<1>2. case'.pc # "over" \/ case'.error => AccountsRemoved'
    BY DEF AccountsRemoved, At
<1>3. case'.pc = "over" /\ case'.error => KeysInv'
    BY <1>2 DEF KeysInv
<1>4. CASE CheckFunding
    <2>1. CASE case'.pc = "step" /\ case'.step = First /\ UNCHANGED held /\ case.pc = "funding" /\ Keeps
        <3>1. Funded(First - 1) = {}
            BY DEF Funded, First
        <3> QED BY <1>1, <1>2, <2>1, <3>1 DEF KeysInv, Generated, First, Funded
    <2> QED BY <1>3, <1>4, <2>1, CheckFundingFacts
<1>5. CASE GenerateAccount
    <2>1. CASE /\ case'.pc = "step" /\ case'.step = case.step + 1 /\ case.pc = "step" /\ Keeps
               /\ Instr(case.step).op = "fund" /\ Instr(case.step).who \in Others
               /\ held' = held \cup {Instr(case.step).who}
        <3>1. Funded(case.step) = Generated \cup {Instr(case.step).who}
            BY <2>1, FundedNext DEF KeysInv, Others
        <3>2. case.step \in Nat /\ First \in Nat /\ case'.step - 1 = case.step
            BY <2>1 DEF CaseInv, Case, First
        <3>3. Funded(case.step - 1)' = Funded(case.step)
            BY <1>1, <2>1, <3>2 DEF Funded
        <3>4. Generated' = Generated \cup {Instr(case.step).who} /\ First' <= case'.step
            BY <1>1, <2>1, <3>2 DEF Generated, Others, KeysInv
        <3> QED BY <1>2, <2>1, <3>1, <3>3, <3>4 DEF KeysInv
    <2> QED BY <1>3, <1>5, <2>1, GenerateAccountFacts
<1>6. CASE SendTransaction
    <2>1. CASE case'.pc = "answer" /\ case'.step = case.step /\ UNCHANGED held /\ case.pc = "step" /\ Keeps
        BY <1>1, <1>2, <2>1 DEF KeysInv, Generated, Funded
    <2> QED BY <1>3, <1>6, <2>1, SendTransactionFacts
<1>7. CASE AnswerTransaction
    <2>1. CASE /\ case.pc = "answer" /\ UNCHANGED held /\ Keeps /\ Instr(case.step).op \in Staking
               /\ case'.pc = "teardown" /\ case'.step = case.step
               /\ case'.skipped = (case.step # Length)
               /\ (case'.skipped => Instr(case.step).needed)
        BY <1>1, <1>2, <2>1, Kept DEF KeysInv, Generated, Funded
    <2>2. CASE /\ case.pc = "answer" /\ UNCHANGED held /\ Keeps /\ Instr(case.step).op \in Staking
               /\ case'.pc = "step" /\ case'.step = case.step + 1
        <3>1. Funded(case.step) = Generated
            BY <2>2, FundedNext DEF KeysInv, Staking
        <3>2. case.step \in Nat /\ First \in Nat /\ case'.step - 1 = case.step
            BY <2>2 DEF CaseInv, Case, First
        <3>3. Funded(case.step - 1)' = Funded(case.step)
            BY <1>1, <2>2, <3>2 DEF Funded
        <3>4. Generated' = Generated /\ First' <= case'.step
            BY <1>1, <2>2, <3>2 DEF Generated, KeysInv
        <3> QED BY <1>2, <2>2, <3>1, <3>3, <3>4 DEF KeysInv
    <2> QED BY <1>3, <1>7, <2>1, <2>2, AnswerTransactionFacts
<1>8. CASE EditLoopOver
    <2>1. CASE /\ UNCHANGED held /\ Keeps /\ case.pc = "step" /\ case.scenario = "edit"
               /\ case.step = Length /\ case'.pc = "teardown" /\ case'.step = case.step /\ ~case'.skipped
        <3>1. Instr(case.step).op = "edits"
            BY <2>1, Scripts
        <3> QED BY <1>1, <1>2, <2>1, <3>1, Kept DEF KeysInv, Generated, Funded
    <2> QED BY <1>3, <1>8, <2>1, EditLoopOverFacts
<1>9. CASE TeardownAccounts
    <2>1. /\ Keeps /\ case.pc = "teardown" /\ case'.pc = "over" /\ case'.skipped = case.skipped
          /\ held' = held \ TornDown
        BY <1>9, TeardownFacts
    <2>2. AccountsRemoved'
        BY <1>1, <2>1, NotLeftBehind DEF AccountsRemoved, Keeps, Generated
    <2> QED BY <2>1, <2>2 DEF KeysInv
<1>10. CASE UNCHANGED <<case, held>>
    <2>1. Keeps
        BY <1>10 DEF Keeps
    <2>2. AccountsRemoved' = AccountsRemoved
        BY <1>10 DEF AccountsRemoved, At, Generated, OwnValidator
    <2> QED BY <1>1, <1>10, <2>1, <2>2, Kept DEF KeysInv, Generated, Funded
<1> QED BY <1>4, <1>5, <1>6, <1>7, <1>8, <1>9, <1>10
        DEF Next, CaseStep, EditLoop, MineStaking, Stopped, vars

\* Whichever of its transactions a scenario is left by, without an error it has
\* removed these accounts from the keystore.
THEOREM AccountsAreRemoved == Spec => []AccountsRemoved
<1>1. Init => Base /\ KeysInv
    BY BaseInit, KeysInvInit DEF Base
<1>2. Base /\ KeysInv /\ [Next]_vars => (Base /\ KeysInv)'
    BY BaseNext, KeysInvNext DEF Base, EditInv
<1>3. Base /\ KeysInv => AccountsRemoved
    BY DEF KeysInv
<1> QED BY <1>1, <1>2, <1>3, PTL DEF Spec

\* Only an error takes the shared validator's key: what is torn down at the end
\* of a scenario is always an account of its own.
THEOREM SharedKeyIsKept == Spec => SharedValidatorKept
<1>1. Init => Base
    BY BaseInit DEF Base
<1>2. Base /\ [Next]_vars => Base'
    BY BaseNext
<1>3. Base /\ [Next]_vars => [("shared" \in held /\ "shared" \notin held') => case'.error]_vars
    <2> SUFFICES ASSUME Base, Next, "shared" \in held, "shared" \notin held' PROVE case'.error
        OBVIOUS
    <2>1. CaseInv /\ edit \in Edit
        BY DEF Base, EditInv
    <2>2. "shared" \notin TornDown
        BY DEF TornDown, OwnValidator
    <2>3. held' # held
        OBVIOUS
    <2> QED BY <2>1, <2>2, <2>3, CheckFundingFacts, GenerateAccountFacts, SendTransactionFacts,
               AnswerTransactionFacts, EditLoopOverFacts, TeardownFacts
            DEF Next, CaseStep, EditLoop, MineStaking, Stopped, vars
<1> QED BY <1>1, <1>2, <1>3, PTL DEF Spec, SharedValidatorKept
----
\* No edit counts more fields than there are, so that the number kept from one
\* edit to the next stays below that of all edits together.
Most == Cardinality(Fields)
CountBounded ==
    /\ edit.pc = "over" => edit.totalChanged <= Repeat * Most
    /\ edit.pc = "head" => edit.totalChanged <= edit.iteration * Most
    /\ edit.pc \in {"send", "await", "evaluate"} => edit.totalChanged <= (edit.iteration + 1) * Most

TypesInv ==
    /\ CountBounded /\ tx \in {"none", "pending", "mined", "failed"}
    /\ held \subseteq Roles /\ delegated \subseteq Roles

\* The products that bound the count, which the solvers are told step by step.
LEMMA Multiples ==
    ASSUME NEW i \in 0 .. Repeat
    PROVE  /\ Most \in Nat /\ i * Most \in Nat /\ Repeat * Most \in Nat
           /\ i * Most <= Repeat * Most /\ (i + 1) * Most = i * Most + Most
<1>1. Most \in Nat /\ Repeat \in Nat
    BY EditValidatorAssumption, FS_CardinalityType DEF Most
<1> HIDE DEF Most
<1>2. i \in Nat /\ Repeat - i \in Nat
    BY <1>1
<1>3. \A a, b \in Nat : a * b \in Nat
    OBVIOUS
<1>4. Repeat * Most = i * Most + (Repeat - i) * Most
    BY <1>1, <1>2
<1>5. i * Most \in Nat /\ Repeat * Most \in Nat /\ (Repeat - i) * Most \in Nat
    BY <1>1, <1>2, <1>3
<1>6. i * Most <= Repeat * Most
    BY <1>4, <1>5
<1>7. (i + 1) * Most = i * Most + Most
    BY <1>1, <1>2
<1> QED BY <1>1, <1>5, <1>6, <1>7

LEMMA TypesInvInit == ASSUME Init PROVE TypesInv
<1>1. held \subseteq Roles /\ delegated \subseteq Roles
    BY DEF Init, Roles
<1>2. edit.pc = "head" /\ edit.totalChanged = 0 /\ edit.iteration = 0 /\ tx = "none"
    BY DEF Init, EditInit
<1>3. 0 \in 0 .. Repeat /\ Most \in Nat
    BY EditValidatorAssumption, FS_CardinalityType DEF Most
<1>4. edit.totalChanged <= edit.iteration * Most
    BY <1>2, <1>3
<1> QED BY <1>1, <1>2, <1>4 DEF TypesInv, CountBounded

LEMMA CountBoundedStep ==
    ASSUME EditInv, CountBounded, EditStep
    PROVE  CountBounded'
<1>0. /\ edit \in Edit /\ edit.asked \subseteq Fields /\ edit.totalChanged \in Nat
      /\ edit.iteration \in 0 .. Repeat /\ Repeat \in Nat
      /\ edit.pc \in {"send", "await", "evaluate"} => edit.iteration + 1 \in 0 .. Repeat
    BY EditValidatorAssumption DEF EditInv, Edit
<1>1. /\ Most \in Nat /\ edit.iteration * Most \in Nat /\ Repeat * Most \in Nat
      /\ edit.iteration * Most <= Repeat * Most
      /\ (edit.iteration + 1) * Most = edit.iteration * Most + Most
    BY <1>0, Multiples
<1>2. edit.pc \in {"send", "await", "evaluate"} => (edit.iteration + 1) * Most <= Repeat * Most
    BY <1>0, Multiples
<1>3. Cardinality(edit.asked) \in Nat /\ Cardinality(edit.asked) <= Most
    BY <1>0, EditValidatorAssumption, FS_Subset, FS_CardinalityType DEF Most
<1> DEFINE now == edit.iteration * Most
           next == (edit.iteration + 1) * Most
           all == Repeat * Most
<1>4. /\ edit.pc = "over" => edit.totalChanged <= all
      /\ edit.pc = "head" => edit.totalChanged <= now
      /\ edit.pc \in {"send", "await", "evaluate"} => edit.totalChanged <= next
    BY DEF CountBounded
<1> HIDE DEF now, next, all
<1>5. now \in Nat /\ all \in Nat /\ now <= all /\ next = now + Most /\ Most \in Nat
    BY <1>1 DEF now, next, all
<1>6. edit.pc \in {"send", "await", "evaluate"} => next <= all
    BY <1>2 DEF next, all
<1>7. edit.totalChanged <= all
    BY <1>0, <1>4, <1>5, <1>6 DEF Edit, EditPC
\* Out of the loop, the number stays as it is.
<1>8. ASSUME edit'.pc = "over", edit'.totalChanged = edit.totalChanged PROVE CountBounded'
    BY <1>7, <1>8 DEF CountBounded, all
<1>9. CASE EditFailed
    BY <1>0, <1>8, <1>9 DEF EditFailed, Edit
<1>10. CASE NextEdit
    <2>1. CASE DetectChanges
        <3>1. /\ edit'.pc = "send" /\ edit'.totalChanged = edit.totalChanged + Cardinality(edit.asked)
              /\ edit'.iteration = edit.iteration /\ edit.pc = "head"
            BY <1>0, <1>10, <2>1 DEF NextEdit, DetectChanges, Edit
        <3>2. edit'.totalChanged <= next
            BY <1>0, <1>3, <1>4, <1>5, <3>1
        <3> QED BY <3>1, <3>2 DEF CountBounded, next
    <2>2. CASE edit' = [edit EXCEPT !.pc = "over", !.result = edit.success /\ edit.updated]
        BY <1>0, <1>8, <2>2 DEF Edit
    <2> QED BY <1>9, <1>10, <2>1, <2>2 DEF NextEdit
<1>11. CASE edit' = [edit EXCEPT !.pc = "await"] /\ edit.pc = "send"
    <2>1. edit'.pc = "await" /\ edit'.totalChanged = edit.totalChanged /\ edit'.iteration = edit.iteration
        BY <1>0, <1>11 DEF Edit
    <2> QED BY <1>4, <1>11, <2>1 DEF CountBounded, next
<1>12. CASE AwaitEdit
    <2>1. /\ edit'.pc = "evaluate" /\ edit'.totalChanged = edit.totalChanged
          /\ edit'.iteration = edit.iteration /\ edit.pc = "await"
        BY <1>0, <1>12 DEF AwaitEdit, Edit
    <2> QED BY <1>4, <2>1 DEF CountBounded, next
<1>13. CASE EvaluateChanges
    <2>1. CASE edit' = [edit EXCEPT !.pc = "head", !.iteration = @ + 1, !.seen = applied,
                                    !.updated = edit.totalChanged = SuccessfulChangeCount]
        <3>1. /\ edit'.pc = "head" /\ edit'.totalChanged = edit.totalChanged
              /\ edit'.iteration = edit.iteration + 1 /\ edit.pc = "evaluate"
            BY <1>0, <1>13, <2>1 DEF EvaluateChanges, Edit
        <3> QED BY <1>4, <3>1 DEF CountBounded, next
    <2> QED BY <1>9, <1>13, <2>1 DEF EvaluateChanges
<1> QED BY <1>9, <1>10, <1>11, <1>12, <1>13 DEF EditStep, SendEdit

LEMMA TypesInvNext ==
    ASSUME Base, ChainInv, TypesInv, [Next]_vars
    PROVE  TypesInv'
<1>0. CaseInv /\ EditInv /\ \A t \in pending : t.who \in Roles
    BY TxTyped DEF Base, ChainInv
<1>1. held' \subseteq Roles
    <2>1. Instr(case.step).who \in Others => held \cup {Instr(case.step).who} \subseteq Roles
        BY DEF Others, TypesInv
    <2>2. CASE GenerateAccount
        <3>1. Instr(case.step).who \in Others /\ Instruction = Instr(case.step)
            BY <1>0, <2>2, Steps DEF GenerateAccount, At, Instruction, Instr, CaseInv, Case, Staking
        <3> QED BY <2>1, <2>2, <3>1 DEF GenerateAccount
    <2>3. held' \subseteq held \/ GenerateAccount
        BY DEF Next, CaseStep, CheckFunding, SendTransaction, AnswerTransaction, EditLoop, EditLoopOver,
               TeardownAccounts, MineStaking, Stopped, vars, HandleError
    <2> QED BY <2>2, <2>3 DEF TypesInv
<1>2. delegated' \subseteq Roles
    <2>1. UNCHANGED delegated \/ \E t \in pending : delegated' \subseteq delegated \cup {t.who}
        BY DEF Next, CaseStep, CheckFunding, GenerateAccount, SendTransaction, AnswerTransaction, EditLoop,
               EditLoopOver, TeardownAccounts, MineStaking, Stopped, vars, chainVars
    <2> QED BY <1>0, <2>1 DEF TypesInv
<1>3. tx' \in {"none", "pending", "mined", "failed"}
    BY DEF TypesInv, Next, CaseStep, CheckFunding, GenerateAccount, SendTransaction, AnswerTransaction,
           EditLoop, EditLoopOver, TeardownAccounts, MineStaking, Stopped, vars, editVars,
           EditStep, NextEdit, SendEdit, AwaitEdit, EvaluateChanges, MineEdit
<1>4. CountBounded'
    <2>1. edit' = edit \/ EditStep
        BY DEF Next, CaseStep, CheckFunding, GenerateAccount, SendTransaction, AnswerTransaction,
           EditLoop, EditLoopOver, TeardownAccounts, MineStaking, Stopped, vars, editVars, MineEdit
    <2>2. CASE edit' = edit
        BY <2>2 DEF TypesInv, CountBounded
    <2> QED BY <1>0, <2>1, <2>2, CountBoundedStep DEF TypesInv
<1> QED BY <1>1, <1>2, <1>3, <1>4 DEF TypesInv

\* The type invariant, for any fields and any number of edits.
THEOREM TypeCorrect == Spec => []TypeOK
<1>1. Init => Base /\ ChainInv /\ TypesInv
    BY BaseInit, ChainInvInit, TypesInvInit DEF Base
<1>2. Base /\ ChainInv /\ TypesInv /\ [Next]_vars => (Base /\ ChainInv /\ TypesInv)'
    BY BaseNext, ChainInvNext, TypesInvNext
<1>3. Base /\ ChainInv /\ TypesInv => TypeOK
    <2> SUFFICES ASSUME Base, ChainInv, TypesInv PROVE TypeOK
        OBVIOUS
    <2>1. CaseInv /\ edit \in Edit /\ applied \subseteq Fields /\ case \in Case /\ case.step \in 1 .. 6
        BY DEF Base, EditInv, CaseInv, Case
    <2>2. edit.totalChanged <= Repeat * Cardinality(Fields)
        <3>1. edit.iteration \in 0 .. Repeat /\ edit.totalChanged \in Nat /\ edit.pc \in EditPC
            BY <2>1 DEF Edit
        <3>2. edit.pc \in {"send", "await", "evaluate"} => edit.iteration + 1 \in 0 .. Repeat
            BY <3>1, EditValidatorAssumption DEF Base, EditInv
        <3> DEFINE now == edit.iteration * Most
                   next == (edit.iteration + 1) * Most
                   all == Repeat * Most
        <3>3. now \in Nat /\ all \in Nat /\ now <= all
            BY <3>1, Multiples
        <3>4. edit.pc \in {"send", "await", "evaluate"} => next \in Nat /\ next <= all
            BY <3>2, Multiples
        <3>5. /\ edit.pc = "over" => edit.totalChanged <= all
              /\ edit.pc = "head" => edit.totalChanged <= now
              /\ edit.pc \in {"send", "await", "evaluate"} => edit.totalChanged <= next
            BY DEF TypesInv, CountBounded
        <3> HIDE DEF now, next, all
        <3>6. edit.totalChanged <= all
            BY <3>1, <3>3, <3>4, <3>5 DEF EditPC
        <3> QED BY <3>6 DEF all, Most
    <2>3. \A t \in pending \cup mined : t \in Transactions
        <3> SUFFICES ASSUME NEW t, t = Disabling \/ Scripted(t) PROVE t \in Transactions
            BY DEF ChainInv
        <3>1. CASE t = Disabling
            BY <3>1 DEF Disabling, Transactions, Roles, BLSKeys
        <3>2. ASSUME NEW i \in 1 .. Length, Instr(i).op \in Staking, t = TxOf(i) PROVE t \in Transactions
            <4>1. Instr(i) \in Sendings /\ i \in 0 .. 6
                BY <2>1, <3>2, Steps DEF CaseInv, Staking
            <4> QED BY <3>2, <4>1 DEF TxOf, Sendings, Transactions, Staking
        <3> QED BY <3>1, <3>2 DEF Scripted
    <2> QED BY <2>1, <2>2, <2>3 DEF TypeOK, EditTypeOK, TypesInv, ChainInv
<1> QED BY <1>1, <1>2, <1>3, PTL DEF Spec
====
