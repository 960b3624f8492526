-------------------------------- MODULE E2E ---------------------------------
(***************************************************************************)
(* End-to-end encryption without its bytes (shared/crypto/e2e.ts and the   *)
(* group, attachment and forwarding helpers of shared/crypto/peerKeys.ts). *)
(* An account key is a value; its public half names it; the key of a chat  *)
(* is the pair of the two account keys, whichever side derives it.  A      *)
(* ciphertext remembers its key and opens with no other.                   *)
(***************************************************************************)

PublicKey(account) == [public |-> account]
NoKey == [missing |-> TRUE]

ChatKey(mine, theirs) == {mine, theirs.public}
\* getChatKey, for a peer who has a public key.
GetChatKey(mine, peer) == ChatKey(mine, PublicKey(peer))

\* Texts and file keys are sets of positive numbers.
Unreadable == {0}

Encrypt(plain, key) == [key |-> key, plain |-> plain]
Decrypt(c, key) == IF c.key = key THEN c.plain ELSE Unreadable

\* Whether each of the recipients (people and their public keys) has a key.
AllKeyed(recipients) == \A r \in DOMAIN recipients : recipients[r] # NoKey

\* Mutant: the recipient's loop variable is forgotten, all get the sender's own envelope.
EncryptForSender(plain, recipients, mine) ==
    [r \in DOMAIN recipients |-> Encrypt(plain, ChatKey(mine, PublicKey(mine)))]

\* One envelope per recipient.
EncryptForGroup(plain, recipients, mine) ==
    [r \in DOMAIN recipients |-> Encrypt(plain, ChatKey(mine, recipients[r]))]

\* A file has a fresh key of its own, which is wrapped like a text.
GenerateFileKey(name) == {name}
EncryptFile(name, fileKey) == Encrypt({name}, fileKey)
DecryptFile(file, fileKey) == Decrypt(file.body, fileKey)
EncryptMetadata(name, fileKey) == Encrypt({name}, fileKey)
DecryptMetadata(file, fileKey) == Decrypt(file.meta, fileKey)
WrapFileKey(fileKey, chatKey) == Encrypt(fileKey, chatKey)
UnwrapFileKey(envelope, chatKey) == Decrypt(envelope, chatKey)

WrapForAll(fileKey, recipients, mine) ==
    [r \in DOMAIN recipients |-> WrapFileKey(fileKey, ChatKey(mine, recipients[r]))]

PrepareAttachment(name, recipients, mine) ==
    LET fileKey == GenerateFileKey(name) IN
    [body |-> EncryptFile(name, fileKey), meta |-> EncryptMetadata(name, fileKey),
     envelopes |-> WrapForAll(fileKey, recipients, mine)]

\* Forwarding: own envelope unwrapped with the source's chat key, wrapped for the new recipients.
Rewrap(file, own, sourceKey, recipients, mine) ==
    [file EXCEPT !.envelopes =
        WrapForAll(UnwrapFileKey(file.envelopes[own], sourceKey), recipients, mine)]

\* What a reader with the chat key sees of a file: the body, once the metadata opens.
OpenFile(file, reader, chatKey) ==
    LET fileKey == UnwrapFileKey(file.envelopes[reader], chatKey) IN
    IF DecryptMetadata(file, fileKey) = Unreadable THEN Unreadable ELSE DecryptFile(file, fileKey)
=============================================================================
