SPECIFICATION Spec
CONSTANTS
    Mails <- MCMails
    Texts <- MCTexts
    Letters <- MCLetters
    Labels <- MCLabels
    Phrases <- MCPhrases
    Runs <- MCRuns
    Digests <- MCDigests
INVARIANTS
    RecoveryShownByProxmox
    NumbersAddUp
    DatesAreText
