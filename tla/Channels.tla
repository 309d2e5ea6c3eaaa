-------------------------------- MODULE Channels -------------------------------
(* The table of notification channels of one customer and of all customers     *)
(* (common/notification_channel.py), and the people who edit it with forms     *)
(* that never show a secret (api_handler/routes/notification_channels.py).     *)
EXTENDS Settings

CONSTANTS
  Ids, Global,        \* channels; those of all customers
  Kinds,              \* what a channel may ask for; asking for none is for all
  People, MaxChannels

ASSUME ChannelsAssumption == Global \subseteq Ids /\ MaxChannels \in Nat

VARIABLES
  rows,               \* the table
  form                \* what a person is at

NoRow == [secret |-> 0, asks |-> {}, on |-> FALSE]
Placeholder == MaxEdits + 1   \* what is shown for a secret, which are numbered

RowType == [secret : 1..MaxEdits, asks : SUBSET Kinds, on : BOOLEAN] \cup {NoRow}
Idle == [pc |-> "idle", ch |-> CHOOSE ch \in Ids : TRUE, row |-> NoRow]

(* A secret that is stored is one that somebody typed.                         *)
ChannelsTypeOK ==
  /\ rows \in [Ids -> RowType]
  /\ \A p \in People : /\ form[p].pc \in {"idle", "create", "open", "put"}
                       /\ form[p].pc = "put" => form[p].row \in RowType

ChannelsInit == rows = [ch \in Ids |-> NoRow] /\ form = [p \in People |-> Idle]

AtForm(p, pc) == form[p].pc = pc
Turns(p, changed) == form' = [form EXCEPT ![p] = changed]

(* The channels of a customer and those of all customers are counted apart.    *)
Shelf(ch) == IF ch \in Global THEN Global ELSE Ids \ Global
Existing(ch) == {x \in Shelf(ch) : rows[x] # NoRow}
--------------------------------------------------------------------------------
(* create_channel counts first, and then puts what is not there.               *)
CountChannels(p, ch) ==
  /\ AtForm(p, "idle") /\ Cardinality(Existing(ch)) < MaxChannels /\ Edits
  /\ \E asks \in SUBSET Kinds :
       Turns(p, [pc |-> "create", ch |-> ch, row |-> [secret |-> edits', asks |-> asks, on |-> TRUE]])
  /\ UNCHANGED rows

CreateChannel(p) ==
  /\ AtForm(p, "create")
  /\ rows' = IF rows[form[p].ch] = NoRow THEN [rows EXCEPT ![form[p].ch] = form[p].row] ELSE rows
  /\ Turns(p, Idle) /\ UNCHANGED <<edits, faults>>

(* channel_to_dict shows the placeholder in the place of a secret.             *)
OpenForm(p, ch) ==
  /\ AtForm(p, "idle") /\ rows[ch] # NoRow /\ Edits
  /\ Turns(p, [pc |-> "open", ch |-> ch, row |-> [rows[ch] EXCEPT !.secret = Placeholder]])
  /\ UNCHANGED rows

(* A mutant: only a secret that is left out is taken from the row.             *)
KeepUnlessSent(sent, existing) == IF sent = 0 THEN existing ELSE sent

(* _keep_existing_secrets, and the placeholder that validate_channel removes.  *)
KeepExisting(sent, existing) == IF sent \in {0, Placeholder} THEN existing ELSE sent

(* The form sends all of the row; a body without asks or on sets them to what  *)
(* a new channel has.                                                          *)
Bodies(p) ==
  LET seen == form[p].row IN
  {[seen EXCEPT !.secret = s] : s \in {0, Placeholder, edits}}
    \cup {[seen EXCEPT !.asks = a] : a \in SUBSET Kinds}
    \cup {[seen EXCEPT !.on = ~@], [secret |-> 0, asks |-> {}, on |-> TRUE]}

(* update_channel reads the row for its secrets.                               *)
ReadToUpdate(p) ==
  /\ AtForm(p, "open")
  /\ \E body \in Bodies(p) :
       LET current == rows[form[p].ch] IN
       Turns(p, IF current = NoRow THEN Idle
                ELSE [form[p] EXCEPT !.pc = "put",
                        !.row = [body EXCEPT !.secret = KeepExisting(@, current.secret)]])
  /\ UNCHANGED <<rows, edits, faults>>

UpdateChannel(p) ==
  /\ AtForm(p, "put")
  /\ rows' = [rows EXCEPT ![form[p].ch] = form[p].row]
  /\ Turns(p, Idle) /\ UNCHANGED <<edits, faults>>

DeleteChannel(p) ==
  /\ AtForm(p, "open")
  /\ rows' = [rows EXCEPT ![form[p].ch] = NoRow]
  /\ Turns(p, Idle) /\ UNCHANGED <<edits, faults>>

ChannelsNext ==
  \E p \in People :
    \/ \E ch \in Ids : CountChannels(p, ch) \/ OpenForm(p, ch)
    \/ CreateChannel(p) \/ ReadToUpdate(p) \/ UpdateChannel(p) \/ DeleteChannel(p)
--------------------------------------------------------------------------------
(* matches() and select(): a notice of several alarms is for a channel that    *)
(* asks for one of them; the channels of all customers come last.              *)
Matches(row, kinds) == row.on /\ (row.asks = {} \/ row.asks \cap kinds # {})
================================================================================
