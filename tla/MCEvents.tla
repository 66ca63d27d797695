------------------------------ MODULE MCEvents ------------------------------
(* What the events of a session may bring: with the first, any message of  *)
(* WhatsApp and any pair of a history batch; with the later ones, a text,  *)
(* an unhandled message and an array of contacts.                          *)
EXTENDS WhatsmeowEvents, TLC

Variants(f) ==
    CASE f = "sticker"  -> {"animated", "none"}
      [] f = "protocol" -> {"edit", "revoke", "history notification", "none"}
      [] f = "template" -> {"hydrated", "none"}
      [] OTHER          -> {"none"}

Text1 == Plain
Group == [Plain EXCEPT !.chat = "group"]
Status == [Plain EXCEPT !.chat = "status"]
Sender == [Plain EXCEPT !.fields = {"sender key"}]
Array == [Plain EXCEPT !.fields = {"contacts"}, !.contacts = 2]
Nothing == [Plain EXCEPT !.web = "nil"]

OneField ==
    UNION {{[Plain EXCEPT !.fields = {f}, !.variant = v, !.empty = e] :
               v \in Variants(f), e \in BOOLEAN} : f \in Fields}
    \cup {[Plain EXCEPT !.fields = {"image", "conversation"}, !.reply = TRUE],
          [Array EXCEPT !.contacts = 0], Group, Status, Array, Nothing}

Later == {Text1, Sender, Array, Group}

Batches ==
    {<<Text1, Sender>>, <<[Text1 EXCEPT !.web = "old"], Array>>,
     <<[Text1 EXCEPT !.web = "broken"], Text1>>, <<Group, Nothing, Text1>>}

Quiet == [readUpdate |-> <<0, 0>>, receipts |-> <<1, 0>>, calls |-> <<1, 0>>,
          groups |-> <<1, 0>>, broadcasts |-> <<0, 0>>, unhandled |-> FALSE, history |-> FALSE,
          batches |-> {}, attachers |-> {"start"}, clears |-> 0]

Same(set) == [k \in 1..6 |-> set]

Syncs == Quiet @@ [inputs |-> Same({Text1, Array}), events |-> 4]
Requests == [Quiet EXCEPT !.attachers = {"start", "ready"}, !.clears = 1]
                @@ [inputs |-> Same({Text1}), events |-> 2]
Loud == [Quiet EXCEPT !.receipts = <<1, -1>>, !.calls = <<-2, 1>>, !.groups = <<1, -1>>,
                      !.broadcasts = <<2, -1>>, !.unhandled = TRUE, !.history = TRUE,
                      !.batches = Batches]
             @@ [inputs |-> Same(OneField), events |-> 3]
Reader == [Quiet EXCEPT !.readUpdate = <<0, 1>>, !.unhandled = TRUE]
             @@ [inputs |-> Same(Later), events |-> 2]

ScenesOf == [syncs |-> Syncs, requests |-> Requests, loud |-> Loud, reader |-> Reader]
=============================================================================
