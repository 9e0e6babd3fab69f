SPECIFICATION Spec
CONSTANT None = None
INVARIANT SessionsHeld
INVARIANT ProcessesSound
INVARIANT SignInsSound
 
INVARIANT AnswersExact
