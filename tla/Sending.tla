------------------------------- MODULE Sending -------------------------------
(***************************************************************************)
(* One Send of each chat provider, from the message the application made,  *)
(* or from a message the provider received and the application sends back, *)
(* to the posts of the platform: whatsappcloud (media.go: deliver, the     *)
(* window of the customer service being open), whatsapp, discord, rocket,  *)
(* signal and mail.                                                        *)
(*                                                                         *)
(* A text is a sequence of characters: a letter is its position in the     *)
(* text, a space and a line feed are as below.  An attachment is its kind  *)
(* and a number of its own.  The platforms are external: a post is         *)
(* accepted, refused, or accepted without the provider learning of it.     *)
(***************************************************************************)
EXTENDS SequencesExt, Integers

CONSTANTS
  Messages,    \* [platforms -> the messages an application sends there]
  Received,    \* [platforms -> the contents received there]
  MaxText,     \* maxTextLength
  MaxCaption   \* maxCaptionLength

Platforms == DOMAIN Messages

Space == 0
LineFeed == -1

Texts == Seq(Nat \cup {LineFeed})
Attachments == STRING \X Nat

\* A caption is all the text of a received media of the WhatsApp platforms; a
\* quoted message comes as a file of rocket alone.
ASSUME SendingAssumption ==
  /\ MaxText \in Nat \ {0} /\ MaxCaption \in Nat
  /\ DOMAIN Received = DOMAIN Messages
  /\ \A p \in Platforms : \A m \in Messages[p] :
       m.text \in Texts /\ m.files \in Seq(Attachments)
  /\ \A p \in Platforms : \A r \in Received[p] :
       /\ {r.text, r.caption} \subseteq Texts /\ r.files \in Seq(Attachments)
       /\ r.caption # <<>> =>
            p \in {"whatsappcloud", "whatsapp"} /\ r.text = <<>> /\ r.files # <<>>
       /\ p # "rocket" => \A i \in DOMAIN r.files : r.files[i][1] # "quote"

VARIABLES
  platform, conversation, message, inReplyTo,
  wanted,  \* history: the content the message stands for
  step,    \* where Send stands, "dropped" for a received message nobody gets
  todo,    \* the posts to make
  ready,   \* the attachments of the first of them were read and uploaded
  posts,   \* the posts the platform accepted
  first,   \* first: the first of those Send knows the identifier of
  result   \* the identifier Send returned

given == <<platform, conversation, message, inReplyTo, wanted>>
vars == <<given, step, todo, ready, posts, first, result>>

-----------------------------------------------------------------------------
(* The text of a cloud message.                                            *)

Blank(c) == c \in {Space, LineFeed}

TrimSpace(text) ==
  LET ink == {i \in DOMAIN text : ~Blank(text[i])}
  IN IF ink = {} THEN <<>> ELSE SubSeq(text, Min(ink), Max(ink))

\* where a chunk ends: before the last separator of its second half, the
\* best kind of separator first, or at the limit
Cut(window) ==
  LET seps == <<<<LineFeed, LineFeed>>, <<LineFeed>>, <<Space>>>>
      At(sep) == {i \in 0..(Len(window) - Len(sep)) :
        i > Len(window) \div 2 /\ SubSeq(window, i + 1, i + Len(sep)) = sep}
      found == {k \in DOMAIN seps : At(seps[k]) # {}}
  IN IF found = {} THEN Len(window) ELSE Max(At(seps[Min(found)]))

\* faulty: skips a separator that need not be there
SplitTextSkips(text) ==
  LET all == TrimSpace(text)
      from[i \in 1..(Len(all) + 1)] ==
        LET rest == TrimSpace(SubSeq(all, i, Len(all)))
            start == Len(all) - Len(rest) + 1
            cut == Cut(SubSeq(rest, 1, MaxText))
        IN IF rest = <<>> THEN <<>>
           ELSE IF Len(rest) <= MaxText THEN <<rest>>
           ELSE <<TrimSpace(SubSeq(rest, 1, cut))>> \o from[start + cut + 1]
  IN from[1]

SplitText(text) ==
  LET all == TrimSpace(text)
      from[i \in 1..(Len(all) + 1)] ==
        LET rest == TrimSpace(SubSeq(all, i, Len(all)))
            start == Len(all) - Len(rest) + 1
            cut == Cut(SubSeq(rest, 1, MaxText))
        IN IF rest = <<>> THEN <<>>
           ELSE IF Len(rest) <= MaxText THEN <<rest>>
           ELSE <<TrimSpace(SubSeq(rest, 1, cut))>> \o from[start + cut]
  IN from[1]

-----------------------------------------------------------------------------
(* The posts a message becomes.                                            *)

Kind(file) == file[1]
Linked(files) ==
  FlattenSeq([i \in DOMAIN files |-> IF Kind(files[i]) = "quote" THEN <<>> ELSE <<files[i]>>])
Text(text) == [text |-> text, files |-> <<>>]
Media(text, file) == [text |-> text, files |-> <<file>>]

Accepted == {"image", "video", "audio", "document"}  \* of cloudMediaKind
Captionable(file) == Kind(file) \in Accepted \ {"audio"}

Captioned(m) ==
  /\ m.files # <<>> /\ m.text # <<>>
  /\ Captionable(m.files[1]) /\ Len(m.text) <= MaxCaption

CloudPosts(m) ==
  LET texts == IF Captioned(m) THEN <<>> ELSE SplitText(m.text)
  IN [i \in DOMAIN texts |-> Text(texts[i])]
       \o [i \in DOMAIN m.files |->
             Media(IF i = 1 /\ Captioned(m) THEN m.text ELSE <<>>, m.files[i])]

\* faulty: every media carries the text
CaptionOfAll(m, i) == m.text

\* the text rides along the first media
CaptionOf(m, i) == IF i = 1 THEN m.text ELSE <<>>

RocketPosts(m) ==
  IF m.files = <<>> THEN <<Text(m.text)>>
  ELSE [i \in DOMAIN m.files |-> Media(CaptionOf(m, i), m.files[i])]

\* buildMediaMessage leaves the caption of an audio out
WhatsappPosts(m) ==
  IF m.files = <<>> THEN <<Text(m.text)>>
  ELSE [i \in DOMAIN m.files |->
          Media(IF Kind(m.files[i]) = "audio" THEN <<>> ELSE CaptionOf(m, i), m.files[i])]

SinglePost(m) == <<[text |-> m.text, files |-> m.files]>>

Posts(m) ==
  CASE platform = "whatsappcloud" -> CloudPosts(m)
    [] platform = "whatsapp" -> WhatsappPosts(m)
    [] platform = "rocket" -> RocketPosts(m)
    [] OTHER -> SinglePost(m)

\* "message has neither content nor attachment", or a mail without a body
Refused(m) ==
  CASE platform = "whatsappcloud" -> m.files = <<>> /\ TrimSpace(m.text) = <<>>
    [] platform = "mail" -> ~m.main
    [] platform = "signal" -> FALSE
    [] OTHER -> m.files = <<>> /\ m.text = <<>>

-----------------------------------------------------------------------------
(* What a received message becomes: the toMessage of each provider.  A     *)
(* content is the text and the files that came, with their caption.        *)

Forward(text, files) == [forwarded |-> TRUE, main |-> TRUE, text |-> text, files |-> files]
Forgotten == [forwarded |-> FALSE, main |-> FALSE, text |-> <<>>, files |-> <<>>]

\* faulty: a media without a caption has nothing to say
CloudMessageOfText(r) ==
  LET text == IF r.text = <<>> THEN r.caption ELSE r.text
  IN IF text = <<>> THEN Forgotten ELSE Forward(text, r.files)

CloudMessage(r) ==
  IF r.text = <<>> /\ r.files = <<>> THEN Forgotten
  ELSE Forward(IF r.text = <<>> THEN r.caption ELSE r.text, r.files)

WhatsappMessage(r) ==
  IF r.text = <<>> /\ r.files = <<>> THEN Forgotten
  ELSE Forward(IF r.text = <<>> /\ r.files # <<>> THEN r.caption ELSE r.text, r.files)

DiscordMessage(r) ==
  IF r.text = <<>> /\ r.files = <<>> THEN Forgotten ELSE Forward(r.text, r.files)

SignalMessage(r) ==
  IF r.text = <<>> /\ r.files = <<>> THEN Forgotten
  ELSE [Forward(r.text, r.files) EXCEPT !.main = r.text # <<>>]

\* a quoted message is among the attachments, and has no link to a file
RocketMessage(r) ==
  Forward(r.text, Linked(r.files))

MailMessage(r) == Forward(r.text, r.files)

MessageOf(r) ==
  CASE platform = "whatsappcloud" -> CloudMessage(r)
    [] platform = "whatsapp" -> WhatsappMessage(r)
    [] platform = "discord" -> DiscordMessage(r)
    [] platform = "signal" -> SignalMessage(r)
    [] platform = "rocket" -> RocketMessage(r)
    [] OTHER -> MailMessage(r)

-----------------------------------------------------------------------------
(* The conversation a message came from, as the identifier of a channel    *)
(* and back.  An identifier is a sequence of tokens: "group:" is the       *)
(* prefix of a group ("group." for signal), "." a dot the code looks for.  *)

ConversationsOf(p) ==
  [kind : {"phone"}, id : {<<"n">>}]
    \cup (IF p \in {"whatsappcloud", "signal"} THEN [kind : {"group"}, id : {<<"n">>, <<"n", ".", "x">>}] ELSE {})
    \cup (IF p = "whatsappcloud" THEN [kind : {"user"}, id : {<<"n", ".", "x">>}] ELSE {})

\* channelFor, and toMessage of signal; the others use the identifier as is
ChannelOf(c) == IF c.kind = "group" THEN <<"group:">> \o c.id ELSE c.id

HasGroupPrefix(id) == id[1] = "group:"

\* faulty: looks for the dot first
AddressedDot(id) ==
  IF \E i \in DOMAIN id : id[i] = "." THEN [kind |-> "user", id |-> id]
  ELSE IF HasGroupPrefix(id) THEN [kind |-> "group", id |-> Tail(id)]
  ELSE [kind |-> "phone", id |-> id]

Addressed(id) ==
  IF HasGroupPrefix(id) THEN [kind |-> "group", id |-> Tail(id)]
  ELSE IF \E i \in DOMAIN id : id[i] = "." THEN [kind |-> "user", id |-> id]
  ELSE [kind |-> "phone", id |-> id]

AddressSendParams(id) ==
  IF HasGroupPrefix(id) THEN [kind |-> "group", id |-> Tail(id)]
  ELSE [kind |-> "phone", id |-> id]

Recipient ==
  CASE platform = "whatsappcloud" -> Addressed(ChannelOf(conversation))
    [] platform = "signal" -> AddressSendParams(ChannelOf(conversation))
    [] OTHER -> conversation

\* which posts refer to the message answered: the first known to the cloud
\* provider, the answer of discord, a text of rocket, and any mail
Quotes ==
  CASE platform = "whatsappcloud" -> inReplyTo /\ first = 0
    [] platform = "discord" -> inReplyTo
    [] platform = "rocket" -> inReplyTo /\ message.files = <<>>
    [] platform = "mail" -> TRUE
    [] OTHER -> FALSE

-----------------------------------------------------------------------------
Chars(text) ==
  FlattenSeq([i \in DOMAIN text |-> IF Blank(text[i]) THEN <<>> ELSE <<<<"char", text[i]>>>>])
Files(files) == [i \in DOMAIN files |-> <<"file", files[i][2]>>]
Content(text, files) == Chars(text) \o Files(files)

Init ==
  /\ platform \in Platforms
  /\ conversation \in ConversationsOf(platform)
  /\ inReplyTo \in BOOLEAN
  /\ \/ \E m \in Messages[platform] :
          /\ message = m /\ step = "begin"
          /\ wanted = Content(m.text, m.files)
     \/ \E r \in Received[platform] :
          /\ message = MessageOf(r)
          /\ step = IF message.forwarded THEN "begin" ELSE "dropped"
          /\ wanted = Content(r.text \o r.caption, Linked(r.files))
  /\ todo = <<>> /\ ready = FALSE /\ posts = <<>> /\ first = 0 /\ result = 0

\* what Send returns along with its error: in a group of the cloud provider,
\* what deliver returned, the first identifier once it is past the text.  A
\* direct message the cloud refuses for its closed window does not fail: it is
\* held back, by CloudOutbox.
Fails ==
  /\ step' = "failed"
  /\ result' = IF /\ platform = "whatsappcloud" /\ conversation.kind = "group"
                  /\ todo # <<>> /\ Head(todo).files # <<>>
               THEN first ELSE 0
  /\ UNCHANGED <<given, todo, ready, first>>

\* the client, the address, the content, and for a mail the mail it answers:
\* each may be missing
Begin ==
  /\ step = "begin"
  /\ \/ /\ ~Refused(message)
        /\ step' = "posting" /\ todo' = Posts(message)
        /\ UNCHANGED <<given, ready, first, result>>
     \/ Fails
  /\ UNCHANGED posts

Next1 == Head(todo)
Unready == Next1.files # <<>> /\ ~ready

\* the attachments are read, and uploaded where the platform wants it;
\* the cloud API does not take every kind
Prepare ==
  /\ step = "posting" /\ todo # <<>> /\ Unready
  /\ \/ /\ \/ platform # "whatsappcloud"
           \/ \A i \in DOMAIN Next1.files : Kind(Next1.files[i]) \in Accepted
        /\ ready' = TRUE
        /\ UNCHANGED <<given, step, todo, first, result>>
     \/ Fails
  /\ UNCHANGED posts

Posted == Append(posts,
  [text |-> Next1.text, files |-> Next1.files, to |-> Recipient, quotes |-> Quotes])

\* faulty: returns the identifier of the last post
PostKeepsLast ==
  /\ step = "posting" /\ todo # <<>> /\ ~Unready
  /\ posts' = Posted /\ first' = Len(posts) + 1
  /\ todo' = Tail(todo) /\ ready' = FALSE
  /\ UNCHANGED <<given, step, result>>

Post ==
  /\ step = "posting" /\ todo # <<>> /\ ~Unready
  /\ posts' = Posted
  /\ first' = IF first = 0 THEN Len(posts) + 1 ELSE first
  /\ todo' = Tail(todo) /\ ready' = FALSE
  /\ UNCHANGED <<given, step, result>>

\* refused, or accepted and the answer was lost or unreadable
PostFails ==
  /\ step = "posting" /\ todo # <<>> /\ ~Unready
  /\ posts' \in {posts, Posted}
  /\ Fails

\* copyToSentFolder
CopyFails ==
  /\ step = "posting" /\ todo = <<>> /\ platform = "mail"
  /\ Fails
  /\ UNCHANGED posts

Own == -1

\* rocket and mail return the identifier of the message they were handed,
\* signal when it cannot read the one of the platform
Returned ==
  CASE platform \in {"rocket", "mail"} -> {Own}
    [] platform = "signal" -> {Own, first}
    [] OTHER -> {first}

Return ==
  /\ step = "posting" /\ todo = <<>>
  /\ step' = "sent" /\ result' \in Returned
  /\ UNCHANGED <<given, todo, ready, posts, first>>

Next == Begin \/ Prepare \/ Post \/ PostFails \/ CopyFails \/ Return

Spec == Init /\ [][Next]_vars

-----------------------------------------------------------------------------
\* WhatsApp, where the code loses a part of the content
CaptionLost ==
  platform = "whatsapp" /\ message.files # <<>> /\ Kind(message.files[1]) = "audio"

Promised == IF CaptionLost THEN Files(message.files) ELSE wanted

PiecesOf(post) == Content(post.text, post.files)

Status ==
  CASE step \in {"begin", "posting"} -> "sending"
    [] step = "dropped" -> "nothing"
    [] OTHER -> step

Abstract == INSTANCE Delivery WITH
  Pieces <- {"char", "file"} \X Nat,
  Conversations <- UNION {ConversationsOf(p) : p \in Platforms},
  wanted <- Promised,
  conversation <- conversation,
  reply <- inReplyTo \/ platform = "mail",
  posts <- [i \in DOMAIN posts |->
              [pieces |-> PiecesOf(posts[i]), to |-> posts[i].to, quotes |-> posts[i].quotes]],
  shown <- Len(FlattenSeq([i \in DOMAIN posts |-> PiecesOf(posts[i])])),
  status <- Status,
  id <- result

\* A Send of any platform is a Delivery: the content of the message, whether
\* the application wrote it or the provider received it, is posted where it
\* belongs, whole and in order, split or not; the identifier is that of the
\* first post, or the message's own; a Send that fails half way has posted the
\* beginning, a mail that could not be filed all of it.  Except for the text
\* of a WhatsApp message that starts with an audio.
DeliverySpec == Abstract!Spec

\* "The text rides along as the caption of the first one" (Send of whatsapp):
\* what was sent without an error was posted whole.
TextIsCarried ==
  step = "sent" =>
    FlattenSeq([i \in DOMAIN posts |-> PiecesOf(posts[i])]) = wanted
=============================================================================
