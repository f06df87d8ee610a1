SPECIFICATION MailSpec
CONSTANTS Recipients = 2
CHECK_DEADLOCK FALSE
INVARIANT SoundServerAccepts
