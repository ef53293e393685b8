CONSTANTS
  Thread = {t1, t2}
  NoThread = none
  EnvValue <- MCEnvValue
  OmpMax = {2, 3}
  Request = {4}
SPECIFICATION Spec
INVARIANT RequestHonoured
