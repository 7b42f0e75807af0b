---- MODULE MCMailProvider ----
EXTENDS MailProvider, TLC
MCFolders == <<"inbox", "lists">>
MCFolderOf == 1 :> "inbox" @@ 2 :> "inbox"
\* the thread of 1 starts with 2, a mail that arrives late
MCRoot == 1 :> 2 @@ 2 :> 2
====
